---------------------------- MODULE Spec2Model ----------------------------
(***************************************************************************)
(* Model of the research pipeline of rift-copilot:                         *)
(*   - the SSE writer of src/lib/sse.ts (createSSEStream),                 *)
(*   - the POST /research route handler (src/app/api/research/route.ts),   *)
(*   - the orchestrator deepResearch                                       *)
(*     (src/features/research/server/deepresearch.ts, first version).      *)
(*                                                                         *)
(* One action models the code that runs between two suspension points      *)
(* (await) of the JavaScript event loop; synchronous calls (emit, sse.send, *)
(* abort listeners) are part of the action that makes them.                *)
(*                                                                         *)
(* Texts are sequences of text units (one-character strings for streamed   *)
(* answers); identifiers are drawn from a counter, as id() yields a fresh  *)
(* value per call.                                                         *)
(***************************************************************************)
EXTENDS Integers, Sequences, FiniteSets, TLC

VARIABLES
  sse,        \* the SSE writer created by createSSEStream (closure state)
  sig,        \* req.signal and the run's AbortController ac
  env,        \* process.env knobs read by deepResearch
  db,         \* the database tables the run writes
  run,        \* local state of deepResearch (position and locals)
  ml,         \* the state of the mapLimit call of the current stage
  emitted,    \* the events deepResearch passed to opts.emit, in order
  route,      \* position of the route's run() wrapper
  idgen,      \* the last identifier handed out by id()
  ingest,     \* the ingest invocations in progress (ingestUrl, ingestNow, queue jobs)
  dec,        \* the SSE decoder of the client (createSSEDecoder closure state)
  gen,        \* the ULID generator (module state of lib/id) and the clock
  call        \* one application of a pure function: its input and its result

vars == <<sse, sig, env, db, run, ml, emitted, route, idgen, ingest, dec, gen, call>>

\* The variables the research run and the writer leave alone.
others == <<ingest, dec, gen, call>>

(***************************************************************************)
(* Bounds of the model.                                                    *)
(***************************************************************************)
MaxPings == 1        \* heartbeat ticks considered
MaxOut == 3          \* chunks written in the stand-alone writer specification
MaxSubqueries == 1   \* subqueries the plan LLM returns
MaxDeltas == 2       \* deltas streamed by the answer LLM in one run
MaxHits == 2         \* chunks a ranking returns
MaxClaims == 1       \* claims the verify LLM returns
MaxActive == 2       \* ingest calls and queue items in flight at once
MaxStarts == 3       \* ingest calls and ingest jobs that are started
MaxLimit == 2        \* the limit of a claimBatch
MaxEvents == 2       \* events sent on the stream that is decoded
MaxClock == 2        \* the largest reading of the clock, in ms
MaxIds == 3          \* ids that are generated
MaxParas == 3        \* paragraphs of a page that is split
MaxHay == 4          \* characters of the text a quote is looked up in
MaxNeedle == 3       \* characters of the quote
MaxRows == 2         \* rows of the chunks table under the full-text index
MaxResults == 2      \* results a search provider returns
MaxItems == 5        \* items of a list given to mapLimit
MaxPlanItems == 7    \* subqueries in an output of the plan LLM
MaxCtx == 3          \* context chunks given to the shrink and the trim
MaxSegs == 3         \* lines of a text given to the SSE decoder
MaxStaleAttempts == 2 \* attempts of a row up to which it is seen to go stale

Max(a, b) == IF a >= b THEN a ELSE b
Min(a, b) == IF a <= b THEN a ELSE b

(***************************************************************************)
(* SSE writer: src/lib/sse.ts, createSSEStream.                            *)
(***************************************************************************)

\* formatEvent: the event name and the payload that end up in the chunk.
formatEvent(data, event) == [kind |-> "event", event |-> event, data |-> data]

\* writeChunk: enqueue unless closed or no controller; returns a boolean.
writeChunk(s, str) ==
  IF s.closed \/ ~s.controller
    THEN [s EXCEPT !.ret = FALSE]
    ELSE [s EXCEPT !.out = Append(@, str), !.ret = TRUE]

send(s, data, event) ==
  writeChunk([s EXCEPT !.call = "send"], formatEvent(data, event))

comment(s, msg) ==
  writeChunk([s EXCEPT !.call = "comment"], [kind |-> "comment", event |-> "", data |-> msg])

\* ping: comment(`ping ${Date.now()}`); the timestamp is not modelled.
ping(s) == [comment(s, "ping") EXCEPT !.call = "ping"]

\* close without the `if (closed) return` guard.
closeNotIdempotent(s) ==
  [s EXCEPT !.closed = TRUE, !.heartbeatTimer = FALSE, !.controller = FALSE,
            !.streamOpen = FALSE, !.onCloseCalls = @ + 1, !.call = "close"]

\* close: idempotent; clears the heartbeat, closes the controller, calls onClose.
close(s) ==
  IF s.closed THEN [s EXCEPT !.call = "close"]
  ELSE [s EXCEPT !.closed = TRUE, !.heartbeatTimer = FALSE, !.controller = FALSE,
                 !.streamOpen = FALSE, !.onCloseCalls = @ + 1, !.call = "close"]

\* The setInterval callback: `if (!closed) ping()`.
heartbeat(s) == IF ~s.closed THEN ping(s) ELSE s

\* State of the writer once the ReadableStream constructor has run start():
\* controller set, heartbeat armed (heartbeatMs = 20000), abort listener hooked.
SseInit ==
  [closed |-> FALSE, controller |-> TRUE, heartbeatTimer |-> TRUE,
   streamOpen |-> TRUE, out |-> <<>>, ret |-> TRUE, onCloseCalls |-> 0,
   pings |-> 0, call |-> "create"]

(***************************************************************************)
(* Errors.  An error is its name, its message and the set of the needles   *)
(* (of those the code tests with includes()) that the lower-cased message  *)
(* contains.                                                               *)
(***************************************************************************)
NoError == [name |-> "", message |-> "", has |-> {}]

\* req.signal.reason ?? new DOMException("Aborted", "AbortError")
AbortReason == [name |-> "AbortError", message |-> "Aborted", has |-> {"abort"}]

\* What the LLM client rejects with when its abortSignal is aborted.
LlmAbortError ==
  [name |-> "AbortError", message |-> "This operation was aborted", has |-> {"abort"}]

TpmError ==
  [name |-> "APICallError",
   message |-> "Rate limit reached: tokens per minute (TPM)",
   has |-> {"tokens per minute", "tpm"}]

TooLargeError ==
  [name |-> "APICallError", message |-> "Request too large", has |-> {"request too large"}]

UpstreamError ==
  [name |-> "APICallError", message |-> "Internal Server Error", has |-> {}]

\* An upstream failure whose message happens to contain "abort".
ConnAbortedError ==
  [name |-> "APICallError", message |-> "Cannot connect to API: ECONNABORTED",
   has |-> {"abort"}]

DbError == [name |-> "LibsqlError", message |-> "SQLITE_BUSY", has |-> {}]

\* Line 629 reads estVerifyTokens, a const declared inside the block of
\* `if (!skipVerify)` (line 565) and out of scope there.
ReferenceError ==
  [name |-> "ReferenceError", message |-> "estVerifyTokens is not defined", has |-> {}]

\* The errors an LLM call rejects with while its signal is not aborted.
LlmErrors == {TpmError, TooLargeError, UpstreamError, ConnAbortedError}

\* route.ts isAbort: name AbortError, or the message contains "abort".
isAbort(err) == err.name = "AbortError" \/ "abort" \in err.has

\* The isTPM test of the answer catch block and of the verify catch.
isTPM(err) ==
  \/ "tokens per minute" \in err.has
  \/ "tpm" \in err.has
  \/ "request too large" \in err.has

(***************************************************************************)
(* Text helpers: src/lib/text.ts and String.prototype.trim.                *)
(***************************************************************************)
WS == {" ", "\n"}

RECURSIVE trimStart(_)
trimStart(s) ==
  IF s = <<>> THEN <<>>
  ELSE IF Head(s) \in WS THEN trimStart(Tail(s)) ELSE s

RECURSIVE trimEnd(_)
trimEnd(s) ==
  IF s = <<>> THEN <<>>
  ELSE IF s[Len(s)] \in WS THEN trimEnd(SubSeq(s, 1, Len(s) - 1)) ELSE s

\* String.prototype.trim
trim(s) == trimEnd(trimStart(s))

CeilDiv(a, b) == (a + b - 1) \div b

\* countWords: s.trim().split(/\s+/).filter(Boolean).length
RECURSIVE countWords(_)
countWords(s) ==
  IF s = <<>> THEN 0
  ELSE IF Head(s) \in WS THEN countWords(Tail(s))
  ELSE IF Len(s) = 1 \/ s[2] \in WS THEN 1 + countWords(Tail(s))
  ELSE countWords(Tail(s))

\* The ASCII punctuation of the class tested by countTokenStats that the
\* modelled texts can contain.
Punctuation == {".", ",", "!", "?", ";", ":", "-"}

RECURSIVE countPunctuation(_)
countPunctuation(s) ==
  IF s = <<>> THEN 0
  ELSE (IF Head(s) \in Punctuation THEN 1 ELSE 0) + countPunctuation(Tail(s))

\* estimateTokens, method "hybrid", charsPerToken 4; the modelled alphabet is
\* ASCII, so the nonAscii penalty is 0.
estimateTokens(s) ==
  LET byChars == CeilDiv(Len(s), 4)
      byWords == CeilDiv(125 * countWords(s) + 20 * countPunctuation(s), 100)
  IN Max(byChars, byWords)

\* estimateTokens of a text known by its length only (chunk texts): the
\* character term; the word term is dominated for prose of words of four or
\* more characters.
estimateTokensChars(n) == CeilDiv(n, 4)

\* shrinkChunkText on lengths: text.slice(0, head) + the 3-character ellipsis line + text.slice(-tail).
shrinkChunkText(len, maxChars) ==
  IF len = 0 \/ len <= maxChars THEN len
  ELSE LET head == (maxChars * 7) \div 10
           tail == maxChars - head
       IN head + 3 + tail

\* trimChunksToBudget: longest prefix within max(300, budget - reserve)
\* estimated tokens; never empty for a non-empty input.
RECURSIVE takeWithin(_, _, _)
takeWithin(chunks, used, max) ==
  IF chunks = <<>> THEN <<>>
  ELSE LET t == estimateTokensChars(Head(chunks).len)
       IN IF used + t > max THEN <<>>
          ELSE <<Head(chunks)>> \o takeWithin(Tail(chunks), used + t, max)

\* A trim that returns what fits, also when nothing does.
trimChunksToBudgetNoKeep(chunks, budget, reserve) ==
  takeWithin(chunks, 0, Max(300, budget - reserve))

trimChunksToBudget(chunks, budget, reserve) ==
  LET max == Max(300, budget - reserve)
      out == takeWithin(chunks, 0, max)
  IN IF out = <<>> /\ chunks # <<>> THEN <<chunks[1]>> ELSE out

\* Keep the first occurrence of every element (the Set + push loops).
RECURSIVE uniq(_, _)
uniq(xs, seen) ==
  IF xs = <<>> THEN <<>>
  ELSE IF Head(xs) \in seen THEN uniq(Tail(xs), seen)
  ELSE <<Head(xs)>> \o uniq(Tail(xs), seen \cup {Head(xs)})

IsNonEmptyUrl(u) == u # ""

\* dedupeUrls: first occurrence order, empty strings skipped.
dedupeUrls(urls) == uniq(SelectSeq(urls, IsNonEmptyUrl), {})

\* Array.prototype.flat on a sequence of sequences.
RECURSIVE flat(_)
flat(ss) == IF ss = <<>> THEN <<>> ELSE Head(ss) \o flat(Tail(ss))

Range(f) == {f[x] : x \in DOMAIN f}

(***************************************************************************)
(* Events: DeepResearchEmitEvent, and the emit switch of the route.        *)
(***************************************************************************)
Progress(stage, message) ==
  [event |-> "progress", data |-> [stage |-> stage, message |-> message]]
TokenEvent(delta) == [event |-> "token", data |-> delta]
SourcesEvent(refs) == [event |-> "sources", data |-> refs]
ClaimsEvent(verified) == [event |-> "claims", data |-> [claims |-> verified]]
DoneEvent(threadId) == [event |-> "done", data |-> [threadId |-> threadId]]
AnswerEvent(text) == [event |-> "answer", data |-> [text |-> text]]
ErrorEvent(err) == [event |-> "error", data |-> [message |-> err.message]]

\* The event names the switch of the route forwards unchanged.
ForwardedEvents == {"progress", "token", "sources", "claims", "done", "error"}

\* The emit callback the route passes to deepResearch: known events are
\* forwarded, any other event becomes progress{stage: "read", message: "..."}.
RouteForward(e) ==
  IF e.event \in ForwardedEvents THEN e ELSE Progress("read", "...")

\* route.ts emit: sse.send(evt.data, {event: evt.event}), errors ignored.
RouteEmit(s, e) == send(s, e.data, e.event)

RECURSIVE RouteEmitAll(_, _)
RouteEmitAll(s, es) ==
  IF es = <<>> THEN s
  ELSE RouteEmitAll(RouteEmit(s, RouteForward(Head(es))), Tail(es))

(***************************************************************************)
(* Environment knobs and request.                                          *)
(***************************************************************************)
Unset == -1
OrDefault(v, d) == IF v = Unset THEN d ELSE v

DefaultEnv ==
  [SKIP_VERIFY_ON_TPM |-> "unset",
   ANSWER_INPUT_BUDGET_TOKENS |-> Unset,
   VERIFY_PROMPT_OVERHEAD_TOKENS |-> Unset,
   READER_CONCURRENCY |-> Unset]

\* The default environment and four deployments that set one knob each.
EnvChoices ==
  { DefaultEnv,
    [DefaultEnv EXCEPT !.SKIP_VERIFY_ON_TPM = "0"],
    [DefaultEnv EXCEPT !.ANSWER_INPUT_BUDGET_TOKENS = 1500],
    [DefaultEnv EXCEPT !.VERIFY_PROMPT_OVERHEAD_TOKENS = 6000],
    [DefaultEnv EXCEPT !.READER_CONCURRENCY = 1] }

\* deepresearch.ts lines 398-409 and 531-538.
INPUT_BUDGET_TOKENS(e) == Max(1200, OrDefault(e.ANSWER_INPUT_BUDGET_TOKENS, 3200))
PROMPT_OVERHEAD_TOKENS == Max(400, 800)
MAX_CHARS_PER_CHUNK == Max(400, 900)
VERIFY_INPUT_BUDGET_TOKENS == Max(800, 1500)
VERIFY_OVERHEAD_TOKENS(e) == Max(300, OrDefault(e.VERIFY_PROMPT_OVERHEAD_TOKENS, 500))
VerifyHardCap == 5000
VerifyMaxCharsPerChunk == 400
SearchConcurrency == 3
MAX_SOURCES_INLINE == 12

\* Math.max(1, Math.min(4, Number(process.env.READER_CONCURRENCY ?? 2)))
readConc(e) == Max(1, Min(4, OrDefault(e.READER_CONCURRENCY, 2)))

\* String(process.env.SKIP_VERIFY_ON_TPM ?? "1") !== "0"
skipVerifyOnTpm(e) == (IF e.SKIP_VERIFY_ON_TPM = "unset" THEN "1" ELSE e.SKIP_VERIFY_ON_TPM) # "0"

\* Math.max(1000, Math.floor(INPUT_BUDGET_TOKENS / 2))
RetryBudgetFloor == 1000
smallerBudget(e) == Max(RetryBudgetFloor, INPUT_BUDGET_TOKENS(e) \div 2)

Question == <<"q", "?">>

\* assistantText of the empty-search path (two text units).
NoSourcesPrefix == "I could not find suitable sources"
NoSourcesText ==
  << NoSourcesPrefix,
     " to answer this yet. Try adding specifics (timeframe, entities) or different keywords." >>

(***************************************************************************)
(* Database.                                                               *)
(***************************************************************************)
EmptyDb ==
  [threads |-> {}, messages |-> <<>>, sources |-> {}, chunks |-> {},
   claims |-> {}, claimEvidence |-> {}, sourceContent |-> {},
   ingestQueue |-> <<>>]

\* A database in which an earlier run ingested the page u1 (ids 1 and 2).
EarlierDb ==
  [EmptyDb EXCEPT !.sources = {[id |-> 1, url |-> "u1"]},
                  !.chunks = {[id |-> 2, sourceId |-> 1, pos |-> 0, len |-> 4000]}]

FirstFreeId == 2

\* What the searches of one subquery can return (canonical URLs, in order).
SearchOutcomes == { <<>>, <<"u1">>, <<"u2", "u1">> }

\* What readUrl + splitIntoWindows yield for a page: the lengths of its windows.
PageOutcomes == { <<4000>> }

(***************************************************************************)
(* mapLimit (deepresearch.ts 1193-1222) with withRetry's entry test of     *)
(* signal.aborted (1167) for each task it starts.                          *)
(***************************************************************************)
NoResult == [pending |-> TRUE]

IdleMl ==
  [stage |-> "none", n |-> 0, limit |-> 1, i |-> 0, inFlight |-> {}, dead |-> 0,
   results |-> <<>>, settled |-> "resolved"]

NewMl(stage, n, limit) ==
  [stage |-> stage, n |-> n, limit |-> limit, i |-> 0, inFlight |-> {}, dead |-> 0,
   results |-> [k \in 1..n |-> NoResult], settled |-> "pending"]

Settle(m, how) == [m EXCEPT !.settled = IF @ = "pending" THEN how ELSE @]

\* next(): resolve when all done; otherwise start tasks up to the limit.  A
\* task started while the signal is aborted rejects at once (withRetry) and
\* rejects the whole mapLimit; its inFlight slot is never released.
mlNext(m, aborted) ==
  IF m.i >= m.n /\ m.inFlight = {} /\ m.dead = 0 THEN Settle(m, "resolved")
  ELSE LET k == Min(m.limit - Cardinality(m.inFlight) - m.dead, m.n - m.i)
       IN IF k <= 0 THEN m
          ELSE IF aborted
            THEN Settle([m EXCEPT !.i = @ + k, !.dead = @ + k], "rejected")
            ELSE [m EXCEPT !.i = @ + k, !.inFlight = @ \cup ((m.i + 1)..(m.i + k))]

\* A .then that appends the result in the order of completion.
mlTaskDonePush(m, idx, res, aborted) ==
  LET free == CHOOSE k \in DOMAIN m.results :
                /\ m.results[k] = NoResult
                /\ \A j \in DOMAIN m.results : m.results[j] = NoResult => k <= j
  IN mlNext([m EXCEPT !.results[free] = res, !.inFlight = @ \ {idx}], aborted)

\* .then of a task: results[idx] = res; inFlight--; next().
mlTaskDone(m, idx, res, aborted) ==
  mlNext([m EXCEPT !.results[idx] = res, !.inFlight = @ \ {idx}], aborted)

(***************************************************************************)
(* deepResearch: local state.                                              *)
(***************************************************************************)
RunInit ==
  [pc |-> "start", err |-> NoError, threadId |-> 0,
   subqueries |-> <<>>, deduped |-> <<>>, urlsInline |-> <<>>, readDone |-> 0,
   sourceRefs |-> <<>>, usedSourceRefs |-> <<>>, contextChunks |-> <<>>,
   shrunkChunks |-> <<>>, promptChunks |-> <<>>, promptBudget |-> 0,
   attempt |-> 0, nDeltas |-> 0, answerBuffer |-> <<>>, streamedChunks |-> 0,
   answerMarkdown |-> <<>>, skipVerifyForBudget |-> FALSE, skipVerify |-> FALSE,
   verifySnippets |-> <<>>, verified |-> <<>>,
   skipWhy |-> "", userMsgId |-> 0, assistantMsgId |-> 0, persisted |-> 0,
   \* history, read by the properties only
   extFail |-> FALSE, answerErrs |-> <<>>]

\* The parts of the state that belong to other entry points, at rest.
IdleJob == [pc |-> "idle", ids |-> {}]
NoIngest == [procs |-> <<>>, job |-> IdleJob, started |-> 0, foreignKeys |-> FALSE]
NoDecoder == [buffer |-> <<>>, events |-> <<>>]
NoGen == [lastTimeMs |-> -1, lastRandom |-> <<>>, clock |-> 0, ids |-> <<>>]
NoCall == [fn |-> "none"]

Init ==
  /\ sse = SseInit
  /\ sig = [req |-> FALSE, ac |-> FALSE, at |-> "none"]
  /\ env \in EnvChoices
  /\ db = EarlierDb
  /\ run = RunInit
  /\ ml = IdleMl
  /\ emitted = <<>>
  /\ route = "running"
  /\ idgen = FirstFreeId
  /\ ingest = NoIngest
  /\ dec = NoDecoder
  /\ gen = NoGen
  /\ call = NoCall

\* opts.emit(e) for each e of es: recorded, then forwarded by the route.
Emit(es) ==
  /\ emitted' = emitted \o es
  /\ sse' = RouteEmitAll(sse, es)

Throw(r, e) == [r EXCEPT !.pc = "thrown", !.err = e]

\* History: an external call (database, LLM, page read) failed.
Failed(r) == [r EXCEPT !.extFail = TRUE]

(***************************************************************************)
(* deepResearch lines 100-106: insert the thread, announce the plan stage. *)
(***************************************************************************)
Start ==
  /\ run.pc = "start"
  /\ idgen' = idgen + 1
  /\ \E ok \in BOOLEAN :
       IF ok
         THEN /\ db' = [db EXCEPT !.threads = @ \cup {idgen + 1}]
              /\ run' = [run EXCEPT !.pc = "plan", !.threadId = idgen + 1]
              /\ Emit(<<Progress("plan", "Planning subqueries")>>)
         ELSE /\ run' = Throw(Failed(run), DbError)
              /\ UNCHANGED <<db, emitted, sse>>
  /\ UNCHANGED others
  /\ UNCHANGED <<sig, env, ml, route>>

(***************************************************************************)
(* Lines 108-149: the plan call settles (its failure and an unparsable     *)
(* output both give the naive plan, the question alone: subquery 0); the   *)
(* search stage is announced and the searches are started.                 *)
(***************************************************************************)
PlanDone ==
  /\ run.pc = "plan"
  /\ \E parsed \in BOOLEAN, n \in 1..MaxSubqueries :
       LET subq == IF parsed THEN [k \in 1..n |-> k] ELSE <<0>>
           m == mlNext(NewMl("search", Len(subq), SearchConcurrency), sig.ac)
           r == [run EXCEPT !.subqueries = subq, !.extFail = @ \/ ~parsed]
       IN /\ ml' = m
          /\ run' = IF m.settled = "rejected"
                      THEN Throw(r, AbortReason)
                      ELSE [r EXCEPT !.pc = "search"]
  /\ Emit(<<Progress("search", "Searching the web")>>)
  /\ UNCHANGED others
  /\ UNCHANGED <<sig, env, db, route, idgen>>

\* Lines 151-213 and 223: merge and dedupe the results, report the count,
\* then either take the empty-search path or start the reads.
AfterSearch(m) ==
  LET deduped == dedupeUrls(flat(m.results))
      found == Progress("search", "Found " \o ToString(Len(deduped)) \o " unique URLs")
  IN IF Len(deduped) = 0
       THEN /\ run' = [run EXCEPT !.pc = "emptyPersist", !.deduped = deduped,
                                  !.userMsgId = idgen + 1, !.assistantMsgId = idgen + 2]
            /\ idgen' = idgen + 2
            /\ ml' = m
            /\ Emit(<<found>>)
       ELSE LET inlineCap == Min(Max(1, MAX_SOURCES_INLINE), Len(deduped))
                m2 == mlNext(NewMl("read", inlineCap, readConc(env)), sig.ac)
                r2 == [run EXCEPT !.deduped = deduped,
                                  !.urlsInline = SubSeq(deduped, 1, inlineCap)]
            IN /\ run' = IF m2.settled = "rejected"
                           THEN Throw(r2, AbortReason)
                           ELSE [r2 EXCEPT !.pc = "read"]
               /\ ml' = m2
               /\ idgen' = idgen
               /\ Emit(<<found,
                         Progress("read", "Reading " \o ToString(Len(deduped)) \o " sources")>>)

\* One deepsearch call settles (it never rejects: every failure is turned
\* into an empty list) and mapLimit goes on.
SearchTaskDone ==
  /\ run.pc = "search"
  /\ ml.stage = "search"
  /\ \E idx \in ml.inFlight, urls \in SearchOutcomes :
       LET m == mlTaskDone(ml, idx, urls, sig.ac)
       IN CASE m.settled = "rejected" ->
                 /\ run' = Throw(run, AbortReason)
                 /\ ml' = m
                 /\ UNCHANGED <<emitted, sse, idgen>>
            [] m.settled = "resolved" -> AfterSearch(m)
            [] OTHER ->
                 /\ ml' = m
                 /\ UNCHANGED <<run, emitted, sse, idgen>>
  /\ UNCHANGED others
  /\ UNCHANGED <<sig, env, db, route>>

(***************************************************************************)
(* Lines 170-201: the empty-search path.                                   *)
(***************************************************************************)
\* The empty path without its `claims` event.
emptyPathEventsNoClaims(threadId) == <<SourcesEvent(<<>>), DoneEvent(threadId)>>

\* Lines 189-191.
emptyPathEvents(threadId) ==
  <<SourcesEvent(<<>>), ClaimsEvent(<<>>), DoneEvent(threadId)>>

EmptyPersist ==
  /\ run.pc = "emptyPersist"
  /\ \E ok \in BOOLEAN :
       IF ok
         THEN /\ db' = [db EXCEPT !.messages = @ \o
                  << [id |-> run.userMsgId, threadId |-> run.threadId,
                      role |-> "user", contentMd |-> Question],
                     [id |-> run.assistantMsgId, threadId |-> run.threadId,
                      role |-> "assistant", contentMd |-> NoSourcesText] >>]
              /\ run' = [run EXCEPT !.pc = "returned", !.answerMarkdown = NoSourcesText]
              /\ Emit(emptyPathEvents(run.threadId))
         ELSE /\ run' = Throw(Failed(run), DbError)
              /\ UNCHANGED <<db, emitted, sse>>
  /\ UNCHANGED others
  /\ UNCHANGED <<sig, env, ml, route, idgen>>

(***************************************************************************)
(* Read stage: lines 203-264 and ingestUrl (716-810).                      *)
(***************************************************************************)
ReadOutcomes ==
  {[ok |-> FALSE, windows |-> <<>>]} \cup {[ok |-> TRUE, windows |-> w] : w \in PageOutcomes}

\* Lines 251-268: keep the successful ingests, number them, emit `sources`
\* and announce the rank stage.
AfterRead(r, m) ==
  LET IsOk(x) == x.ok
      okIngests == SelectSeq(m.results, IsOk)
      sourceRefs == [k \in 1..Len(okIngests) |->
                       [id |-> okIngests[k].sourceId, url |-> okIngests[k].url, index |-> k]]
  IN [r EXCEPT !.pc = "rank", !.sourceRefs = sourceRefs]

\* The end of the read stage without the `sources` event.
readStageEndEventsNoSources(refs) == <<Progress("rank", "Ranking snippets")>>

\* Lines 264-271: `sources`, then the rank stage is announced.
readStageEndEvents(refs) ==
  <<SourcesEvent(refs), Progress("rank", "Ranking snippets")>>

\* One ingestUrl call settles and the mapLimit callback continues: the page
\* is stored unless a source with this url exists or the read failed (ingestUrl
\* catches every error); readDone++, a progress event on every second read
\* and on the last one.  A task still in flight after mapLimit has rejected
\* runs to its end as well.
ReadTaskDone ==
  /\ ml.stage = "read"
  /\ \E idx \in ml.inFlight, out \in ReadOutcomes :
       LET url == run.urlsInline[idx]
           existing == {x \in db.sources : x.url = url}
           sourceId == IF existing # {} THEN (CHOOSE x \in existing : TRUE).id ELSE idgen + 1
           fresh == existing = {} /\ out.ok
           res == IF existing # {} \/ out.ok
                    THEN [ok |-> TRUE, sourceId |-> sourceId, url |-> url]
                    ELSE [ok |-> FALSE, sourceId |-> 0, url |-> url]
           n == Len(out.windows)
           readDone == run.readDone + 1
           total == Len(run.urlsInline)
           progress == IF readDone = total \/ readDone % 2 = 0
                         THEN <<Progress("read",
                                  "Read " \o ToString(readDone) \o "/" \o ToString(total))>>
                         ELSE <<>>
           m == mlTaskDone(ml, idx, res, sig.ac)
           r == [run EXCEPT !.readDone = readDone,
                            !.extFail = @ \/ (existing = {} /\ ~out.ok)]
       IN /\ existing # {} => out = [ok |-> FALSE, windows |-> <<>>]
          /\ db' = IF fresh
                     THEN [db EXCEPT
                            !.sources = @ \cup {[id |-> sourceId, url |-> url]},
                            !.chunks = @ \cup
                               {[id |-> sourceId + k, sourceId |-> sourceId, pos |-> k - 1,
                                 len |-> out.windows[k]] : k \in 1..n}]
                     ELSE db
          /\ idgen' = IF fresh THEN idgen + 1 + n ELSE idgen
          /\ ml' = m
          /\ IF run.pc # "read"
               THEN /\ run' = r
                    /\ Emit(progress)
               ELSE CASE m.settled = "rejected" ->
                           /\ run' = Throw(r, AbortReason)
                           /\ Emit(progress)
                      [] m.settled = "resolved" ->
                           /\ run' = AfterRead(r, m)
                           /\ Emit(progress \o
                                   readStageEndEvents(AfterRead(r, m).sourceRefs))
                      [] OTHER ->
                           /\ run' = r
                           /\ Emit(progress)
  /\ UNCHANGED others
  /\ UNCHANGED <<sig, env, route>>

(***************************************************************************)
(* Rank stage: lines 266-387, then the start of the answer stage 389-444.  *)
(***************************************************************************)
RankLimit == 24
LimitPerSource == 3

\* The sequences without repetition of at most k elements of S.
SeqsOf(S, k) ==
  UNION { {q \in [1..n -> S] : \A a, b \in 1..n : a # b => q[a] # q[b]} : n \in 0..k }

\* A hit list respects diversifyBySource: at most perSourceLimit per source.
Diversified(q) ==
  \A sid \in {q[k].sourceId : k \in DOMAIN q} :
     Cardinality({k \in DOMAIN q : q[k].sourceId = sid}) <= LimitPerSource

\* What rankForQueries can return: chunks of any source that match (a chunk
\* with an empty text matches no query).
RankOutcomes ==
  {q \in SeqsOf({c \in db.chunks : c.len > 0}, Min(MaxHits, RankLimit)) : Diversified(q)}

\* What likeFallbackRank can return: chunks of the sources read by this run.
LikeOutcomes ==
  LET own == {run.sourceRefs[k].id : k \in DOMAIN run.sourceRefs}
  IN SeqsOf({c \in db.chunks : c.len > 0 /\ c.sourceId \in own}, Min(MaxHits, 48))

\* perSourceBags / usedSourceRefs / contextChunks (lines 344-387).
selectedSourceIds(hits) == uniq([k \in DOMAIN hits |-> hits[k].sourceId], {})

usedSourceRefs(hits) ==
  LET sids == selectedSourceIds(hits)
  IN [n \in DOMAIN sids |->
        [id |-> sids[n],
         url |-> (CHOOSE x \in db.sources : x.id = sids[n]).url,
         index |-> n]]

bagOf(hits, sid) ==
  LET Mine(h) == h.sourceId = sid
      all == SelectSeq(hits, Mine)
  IN SubSeq(all, 1, Min(Len(all), LimitPerSource))

contextChunks(hits) ==
  LET sids == selectedSourceIds(hits)
  IN flat([n \in DOMAIN sids |-> bagOf(hits, sids[n])])

shrink(chunks, maxChars) ==
  [k \in DOMAIN chunks |-> [chunks[k] EXCEPT !.len = shrinkChunkText(@, maxChars)]]

\* A new streamCompletion call (buildAndStream, lines 428-447).
BeginAttempt(r, chunks, budget) ==
  [r EXCEPT !.pc = "answer", !.attempt = @ + 1, !.promptChunks = chunks,
            !.promptBudget = budget, !.answerBuffer = <<>>, !.streamedChunks = 0]

Rank ==
  /\ run.pc = "rank"
  /\ \E ok \in BOOLEAN, ranked \in RankOutcomes, like \in LikeOutcomes :
       IF ~ok
         THEN /\ ranked = <<>> /\ like = <<>>
              /\ run' = Throw(Failed(run), DbError)
              /\ UNCHANGED <<emitted, sse>>
         ELSE LET hits == IF ranked = <<>> THEN like ELSE ranked
                  selected == Progress("rank",
                                 "Selected " \o ToString(Len(hits)) \o " snippets")
                  fallback == Progress("rank",
                                 "Fallback ranking (LIKE) selected " \o ToString(Len(hits))
                                   \o " snippets")
                  ctx == contextChunks(hits)
                  shrunk == shrink(ctx, MAX_CHARS_PER_CHUNK)
                  budgeted == trimChunksToBudget(shrunk, INPUT_BUDGET_TOKENS(env),
                                                 PROMPT_OVERHEAD_TOKENS)
              IN /\ ranked # <<>> => like = <<>>
                 /\ run' = BeginAttempt(
                             [run EXCEPT !.usedSourceRefs = usedSourceRefs(hits),
                                         !.contextChunks = ctx,
                                         !.shrunkChunks = shrunk],
                             budgeted, INPUT_BUDGET_TOKENS(env))
                 /\ Emit((IF ranked = <<>> THEN <<fallback>> ELSE <<>>) \o
                         <<selected, Progress("answer", "Drafting answer")>>)
  /\ UNCHANGED others
  /\ UNCHANGED <<sig, env, db, ml, route, idgen>>

(***************************************************************************)
(* Answer stage: buildAndStream (428-469) and its try/catch (471-505).     *)
(***************************************************************************)
\* streamCompletion is called without an abortSignal.
answerSignalNone(s) == FALSE

\* Line 443, `abortSignal: abortSig`: the signal the answer call observes.
answerSignal(s) == s.ac

\* Line 585, `abortSignal: abortSig`: the signal the verify call observes.
verifySignal(s) == s.ac

\* The deltas the model streams (the empty delta is skipped by the loop).
Deltas == { <<>>, <<"a">>, <<" ">> }

\* The answer LLM call observes abortSignal: once the run's signal is
\* aborted the stream yields nothing more and rejects with an AbortError.
AnswerDelta ==
  /\ run.pc = "answer"
  /\ ~answerSignal(sig)
  /\ run.nDeltas < MaxDeltas
  /\ \E delta \in Deltas :
       IF Len(delta) > 0
         THEN /\ run' = [run EXCEPT !.nDeltas = @ + 1, !.streamedChunks = @ + 1,
                                    !.answerBuffer = @ \o delta]
              /\ Emit(<<TokenEvent(delta)>>)
         ELSE /\ run' = [run EXCEPT !.nDeltas = @ + 1]
              /\ UNCHANGED <<emitted, sse>>
  /\ UNCHANGED others
  /\ UNCHANGED <<sig, env, db, ml, route, idgen>>

\* Lines 457-468, 501 and 508-509: the stream ended; the trimmed buffer is
\* the answer; the `answer` event; the message ids are drawn.
AnswerEnd ==
  /\ run.pc = "answer"
  /\ ~answerSignal(sig)
  /\ LET full == trim(run.answerBuffer)
         safety == IF run.streamedChunks = 0 /\ Len(full) > 0
                     THEN <<TokenEvent(full)>> ELSE <<>>
     IN /\ run' = [run EXCEPT !.pc = "persistMsg", !.answerMarkdown = full,
                     !.skipVerifyForBudget = (run.attempt = 2 /\ skipVerifyOnTpm(env)),
                     !.userMsgId = idgen + 1, !.assistantMsgId = idgen + 2]
        /\ Emit(safety \o <<AnswerEvent(full)>>)
  /\ idgen' = idgen + 2
  /\ UNCHANGED others
  /\ UNCHANGED <<sig, env, db, ml, route>>

\* A catch that retries a TPM error of the retry as well.
answerCatchRetryAgain(attempt, err) == IF isTPM(err) THEN "retry" ELSE "throw"

\* What the catch block does with the error of the first attempt (484-504):
\* "retry" for a TPM error, "throw" otherwise; the second attempt is outside
\* the try block.
answerCatch(attempt, err) == IF attempt = 1 /\ isTPM(err) THEN "retry" ELSE "throw"

RetryProgress ==
  Progress("answer", "Context too large; retrying with smaller context")

AnswerFail ==
  /\ run.pc = "answer"
  /\ \E err \in LlmErrors \cup {LlmAbortError} :
       LET r == [Failed(run) EXCEPT !.answerErrs = Append(@, err)]
       IN /\ (err = LlmAbortError) <=> answerSignal(sig)
          /\ IF answerCatch(run.attempt, err) = "retry"
               THEN LET smaller == trimChunksToBudget(run.shrunkChunks, smallerBudget(env),
                                                      PROMPT_OVERHEAD_TOKENS)
                    IN /\ run' = BeginAttempt(r, smaller, smallerBudget(env))
                       /\ Emit(<<RetryProgress>>)
               ELSE /\ run' = Throw(r, err)
                    /\ UNCHANGED <<emitted, sse>>
  /\ UNCHANGED others
  /\ UNCHANGED <<sig, env, db, ml, route, idgen>>

(***************************************************************************)
(* Persist conversation (507-521) and the verify stage (524-643).          *)
(***************************************************************************)
RECURSIVE sumTokens(_)
sumTokens(chunks) ==
  IF chunks = <<>> THEN 0
  ELSE estimateTokensChars(Head(chunks).len) + sumTokens(Tail(chunks))

\* verifySnippetsBudgeted (541-556).
verifySnippetsBudgeted(shrunk, e) ==
  trimChunksToBudget(shrink(shrunk, VerifyMaxCharsPerChunk),
                     VERIFY_INPUT_BUDGET_TOKENS, VERIFY_OVERHEAD_TOKENS(e))

\* estVerifyTokens (564-565).
estVerifyTokens(answer, snippets, e) ==
  estimateTokens(answer) + sumTokens(snippets) + VERIFY_OVERHEAD_TOKENS(e)

\* Line 629 reads estVerifyTokens, which is declared by `const` inside the
\* block of `if (!skipVerify)` (565): the identifier is never in scope there.
estVerifyTokensInScope == FALSE

\* Lines 626-643: emit `claims`, end the span, emit `done`, return.
\* `before` holds the events of the same step that precede them.
Conclude(r, before) ==
  IF estVerifyTokensInScope
    THEN /\ run' = [r EXCEPT !.pc = "returned"]
         /\ Emit(before \o <<ClaimsEvent(r.verified), DoneEvent(r.threadId)>>)
    ELSE /\ run' = Throw(r, ReferenceError)
         /\ Emit(before \o <<ClaimsEvent(r.verified)>>)

\* The same without the test of skipVerifyForBudget.
skipBeforeCallNoBudgetFlag(r, snippets, e) ==
  IF r.contextChunks = <<>> \/ r.usedSourceRefs = <<>> THEN "no-context"
  ELSE IF estVerifyTokens(r.answerMarkdown, snippets, e) > VerifyHardCap THEN "ceiling"
  ELSE ""

\* Why verification is skipped before the verify call, "" if it is not
\* (lines 560 and 567).
skipBeforeCall(r, snippets, e) ==
  IF r.contextChunks = <<>> \/ r.usedSourceRefs = <<>> THEN "no-context"
  ELSE IF r.skipVerifyForBudget THEN "tpm-retry"
  ELSE IF estVerifyTokens(r.answerMarkdown, snippets, e) > VerifyHardCap THEN "ceiling"
  ELSE ""

PersistMsg ==
  /\ run.pc = "persistMsg"
  /\ \E ok \in BOOLEAN :
       IF ~ok
         THEN /\ run' = Throw(Failed(run), DbError)
              /\ UNCHANGED <<db, emitted, sse>>
         ELSE LET snippets == verifySnippetsBudgeted(run.shrunkChunks, env)
                  why == skipBeforeCall(run, snippets, env)
                  r == [run EXCEPT !.verifySnippets = snippets, !.skipWhy = why,
                                   !.skipVerify = (why # "")]
                  verifyStage == Progress("verify", "Verifying claims")
              IN /\ db' = [db EXCEPT !.messages = @ \o
                      << [id |-> run.userMsgId, threadId |-> run.threadId,
                          role |-> "user", contentMd |-> Question],
                         [id |-> run.assistantMsgId, threadId |-> run.threadId,
                          role |-> "assistant", contentMd |-> run.answerMarkdown] >>]
                 /\ IF why # ""
                      THEN Conclude(r, <<verifyStage>>)
                      ELSE /\ run' = [r EXCEPT !.pc = "verifyCall"]
                           /\ Emit(<<verifyStage>>)
  /\ UNCHANGED others
  /\ UNCHANGED <<sig, env, ml, route, idgen>>

\* The evidence items the verify LLM may return: taken from the snippets it
\* was given, pointing at a chunk of another source, or at unknown ids.
NoChunk == 0
EvidenceChoices(snippets) ==
  LET ids == {[sourceId |-> snippets[k].sourceId, chunkId |-> snippets[k].id]
                : k \in DOMAIN snippets}
  IN {[sourceId |-> x.sourceId, chunkId |-> x.chunkId, quote |-> "quote"] : x \in ids}
     \cup {[sourceId |-> 99, chunkId |-> 98, quote |-> "quote"],
           [sourceId |-> (CHOOSE x \in ids : TRUE).sourceId, chunkId |-> NoChunk,
            quote |-> "quote"]}

\* The parsed outputs of the verify LLM (an output that does not parse gives
\* the empty list).
RawVerified(snippets) ==
  LET claimsOf == {[text |-> "claim", evidence |-> ev]
                     : ev \in {<<>>} \cup {<<x>> : x \in EvidenceChoices(snippets)}}
  IN UNION {[1..n -> claimsOf] : n \in 0..MaxClaims}

\* normalizeVerifiedClaims (965-985).
normalizeVerifiedClaims(input, allowedSourceIds, allowedChunkIds) ==
  LET Keep(x) == /\ x.quote # ""
                 /\ x.sourceId \in allowedSourceIds
                 /\ x.chunkId # NoChunk
                 /\ x.chunkId \in allowedChunkIds
  IN [k \in DOMAIN input |-> [input[k] EXCEPT !.evidence = SelectSeq(@, Keep)]]

chunkIdsOf(verified) ==
  UNION {{verified[k].evidence[j].chunkId : j \in DOMAIN verified[k].evidence}
           : k \in DOMAIN verified}

\* The verify call settles (579-618).  A TPM error sets skipVerify and stands
\* for the output '{}', which does not parse; any other error propagates.
VerifyCallDone ==
  /\ run.pc = "verifyCall"
  /\ \/ /\ ~verifySignal(sig)
        /\ \E raw \in RawVerified(run.verifySnippets) :
             LET allowedSourceIds == {run.usedSourceRefs[k].id : k \in DOMAIN run.usedSourceRefs}
                 allowedChunkIds == {run.verifySnippets[k].id : k \in DOMAIN run.verifySnippets}
                 verified == normalizeVerifiedClaims(raw, allowedSourceIds, allowedChunkIds)
                 r == [run EXCEPT !.verified = verified]
             IN IF chunkIdsOf(verified) # {}
                  THEN /\ run' = [r EXCEPT !.pc = "bind"]
                       /\ UNCHANGED <<emitted, sse>>
                  ELSE IF verified # <<>>
                    THEN /\ run' = [r EXCEPT !.pc = "persistClaims"]
                         /\ UNCHANGED <<emitted, sse>>
                    ELSE Conclude(r, <<>>)
     \/ \E err \in LlmErrors \cup {LlmAbortError} :
          /\ (err = LlmAbortError) <=> verifySignal(sig)
          /\ IF isTPM(err)
               THEN Conclude([Failed(run) EXCEPT !.skipVerify = TRUE,
                                !.skipWhy = "verify-tpm", !.verified = <<>>], <<>>)
               ELSE /\ run' = Throw(Failed(run), err)
                    /\ UNCHANGED <<emitted, sse>>
  /\ UNCHANGED others
  /\ UNCHANGED <<sig, env, db, ml, route, idgen>>

\* bindOffsetsForEvidence (987-1023): the select of the chunk texts settles.
BindDone ==
  /\ run.pc = "bind"
  /\ \E ok \in BOOLEAN :
       run' = IF ok THEN [run EXCEPT !.pc = "persistClaims"]
              ELSE Throw(Failed(run), DbError)
  /\ UNCHANGED others
  /\ UNCHANGED <<sse, sig, env, db, ml, emitted, route, idgen>>

\* persistClaims (1025-1062), one claim per step: the claim row, then one
\* claim_evidence row per evidence item.
PersistClaim ==
  /\ run.pc = "persistClaims"
  /\ \E ok \in BOOLEAN :
       IF ~ok
         THEN /\ run' = Throw(Failed(run), DbError)
              /\ UNCHANGED <<db, emitted, sse, idgen>>
         ELSE LET c == run.verified[run.persisted + 1]
                  claimId == idgen + 1
                  r == [run EXCEPT !.persisted = @ + 1]
              IN /\ db' = [db EXCEPT
                      !.claims = @ \cup {[id |-> claimId, messageId |-> run.assistantMsgId,
                                          text |-> c.text]},
                      !.claimEvidence = @ \cup
                         {[id |-> claimId + j, claimId |-> claimId,
                           sourceId |-> c.evidence[j].sourceId,
                           chunkId |-> c.evidence[j].chunkId,
                           quote |-> c.evidence[j].quote] : j \in DOMAIN c.evidence}]
                 /\ idgen' = idgen + 1 + Len(c.evidence)
                 /\ IF r.persisted = Len(r.verified)
                      THEN Conclude(r, <<>>)
                      ELSE /\ run' = r
                           /\ UNCHANGED <<emitted, sse>>
  /\ UNCHANGED others
  /\ UNCHANGED <<sig, env, ml, route>>

(***************************************************************************)
(* The route: run() (route.ts 64-102), the abort wiring (50-54), the       *)
(* reader of the response stream and the heartbeat of the writer.          *)
(***************************************************************************)
\* A catch block that closes the stream without the `error` event.
runCatchNoErrorEvent(s, err) == IF isAbort(err) THEN s ELSE close(s)

\* The catch block of run() (90-100): silent on an abort, otherwise the
\* `error` event and sse.close(err).
runCatch(s, err) ==
  IF isAbort(err) THEN s ELSE close(RouteEmit(s, ErrorEvent(err)))

RouteFinish ==
  /\ route = "running"
  /\ run.pc \in {"returned", "thrown"}
  /\ route' = "finished"
  /\ sse' = IF run.pc = "returned" THEN close(sse) ELSE runCatch(sse, run.err)
  /\ UNCHANGED others
  /\ UNCHANGED <<sig, env, db, run, ml, emitted, idgen>>

\* req.signal fires: the writer's listener (registered first, in start())
\* closes the stream, then onReqAbort aborts the run's controller.
ReqAbort ==
  /\ ~sig.req
  /\ sig' = [req |-> TRUE, ac |-> TRUE,
             at |-> IF route = "finished" THEN "finished" ELSE run.pc]
  /\ sse' = close(sse)
  /\ UNCHANGED others
  /\ UNCHANGED <<env, db, run, ml, emitted, route, idgen>>

Next ==
  \/ Start
  \/ PlanDone
  \/ SearchTaskDone
  \/ EmptyPersist
  \/ ReadTaskDone
  \/ Rank
  \/ AnswerDelta
  \/ AnswerEnd
  \/ AnswerFail
  \/ PersistMsg
  \/ VerifyCallDone
  \/ BindDone
  \/ PersistClaim
  \/ RouteFinish
  \/ ReqAbort

Spec == Init /\ [][Next]_vars

(***************************************************************************)
(* The writer on its own: any caller of send / comment / ping / close, the *)
(* heartbeat interval, the consumer cancelling the stream and the abort    *)
(* signal (sse.ts 127-187).  The run specification above leaves out the    *)
(* heartbeat comments and a consumer-side cancel, which only add comment   *)
(* chunks or close the writer.                                             *)
(***************************************************************************)
SsePayloads == { <<"a">>, <<" ">> }

SseSend ==
  /\ Len(sse.out) < MaxOut
  /\ \E event \in {"progress", "token"}, data \in SsePayloads :
       sse' = send(sse, data, event)
  /\ UNCHANGED others
  /\ UNCHANGED <<sig, env, db, run, ml, emitted, route, idgen>>

SseComment ==
  /\ Len(sse.out) < MaxOut
  /\ sse' = comment(sse, "note")
  /\ UNCHANGED others
  /\ UNCHANGED <<sig, env, db, run, ml, emitted, route, idgen>>

SsePing ==
  /\ Len(sse.out) < MaxOut
  /\ sse' = ping(sse)
  /\ UNCHANGED others
  /\ UNCHANGED <<sig, env, db, run, ml, emitted, route, idgen>>

\* The setInterval callback fires (only while the timer is armed).
HeartbeatTick ==
  /\ sse.heartbeatTimer
  /\ sse.pings < MaxPings
  /\ sse' = [heartbeat(sse) EXCEPT !.pings = @ + 1, !.call = "heartbeat"]
  /\ UNCHANGED others
  /\ UNCHANGED <<sig, env, db, run, ml, emitted, route, idgen>>

SseClose ==
  /\ sse' = close(sse)
  /\ UNCHANGED others
  /\ UNCHANGED <<sig, env, db, run, ml, emitted, route, idgen>>

\* The consumer of the response body cancels it: cancel(reason) -> close.
ReaderCancel ==
  /\ sse.streamOpen
  /\ sse' = [close(sse) EXCEPT !.call = "cancel"]
  /\ UNCHANGED others
  /\ UNCHANGED <<sig, env, db, run, ml, emitted, route, idgen>>

\* opts.signal fires: onAbort -> close.
SignalAbort ==
  /\ ~sig.req
  /\ sig' = [sig EXCEPT !.req = TRUE]
  /\ sse' = [close(sse) EXCEPT !.call = "abort"]
  /\ UNCHANGED others
  /\ UNCHANGED <<env, db, run, ml, emitted, route, idgen>>

NextSSE ==
  \/ SseSend
  \/ SseComment
  \/ SsePing
  \/ HeartbeatTick
  \/ SseClose
  \/ ReaderCancel
  \/ SignalAbort

SpecSSE == Init /\ [][NextSSE]_vars

(***************************************************************************)
(* The ingest paths: ingestUrl of the orchestrator (deepresearch.ts        *)
(* 716-810), ingestNow of POST /ingest (search/route.tsx 212-294) and the  *)
(* queue job (research/route.ts 321-614): reviveStaleProcessing,           *)
(* claimBatch and processQueueItem.  Every invocation is a process of      *)
(* `ingest`; one action is the code between two awaits.                    *)
(***************************************************************************)
IngestUrls == {"u1", "u2"}

\* The messages of the errors a read can fail with, by length.
ReadErrors == {[len |-> 20, cut |-> FALSE], [len |-> 501, cut |-> FALSE]}
NoMessage == [len |-> 0, cut |-> FALSE]

\* truncate(s, max) (route.ts 626-629): s when it fits, else its first
\* max - 1 characters and an ellipsis.
truncate(s, max) ==
  IF s.len = 0 THEN NoMessage
  ELSE IF s.len <= max THEN s ELSE [len |-> (max - 1) + 1, cut |-> TRUE]

ErrorTextMax == 500
maxAttempts == 3

\* A plain insert into a table without the unique index on url.
insertSourceNoUnique(d, row) == [d EXCEPT !.sources = @ \cup {row}]

\* insert into sources ... onConflictDoNothing({target: sources.url}): the
\* row is added unless a row with this url exists.
insertSource(d, row) ==
  IF \E x \in d.sources : x.url = row.url THEN d
  ELSE [d EXCEPT !.sources = @ \cup {row}]

\* select from sources where url = ... limit 1: the id, 0 if there is none.
sourceIdByUrl(d, url) ==
  IF \E x \in d.sources : x.url = url
    THEN (CHOOSE x \in d.sources : x.url = url).id
    ELSE 0

\* The rows of ingest_queue in the states the model starts from: one or two
\* queued rows (enqueue does not look for a row of the same url).
QueueRow(url) ==
  [url |-> url, status |-> "queued", attempts |-> 0, error |-> NoMessage,
   stale |-> FALSE]
\* A row that failed twice and was requeued each time.
FailedTwice(url) ==
  [QueueRow(url) EXCEPT !.attempts = 2, !.error = [len |-> 20, cut |-> FALSE]]
QueueChoices ==
  { <<QueueRow("u1")>>, <<QueueRow("u1"), QueueRow("u1")>>,
    <<QueueRow("u1"), QueueRow("u2")>>, <<FailedTwice("u1")>> }

\* claimBatch order: priority desc (all equal here), attempts asc,
\* created_at asc (the position in the table).
RECURSIVE claimOrder(_, _)
claimOrder(q, ids) ==
  IF ids = {} THEN <<>>
  ELSE LET first == CHOOSE i \in ids :
                      \A j \in ids : \/ q[i].attempts < q[j].attempts
                                     \/ q[i].attempts = q[j].attempts /\ i <= j
       IN <<first>> \o claimOrder(q, ids \ {first})

NewProc(path, pc, url, row) ==
  [path |-> path, pc |-> pc, url |-> url, row |-> row, sourceId |-> 0,
   finalSourceId |-> 0, sawExisting |-> FALSE, didRead |-> FALSE,
   attempts |-> 0, err |-> NoMessage, status |-> "",
   second |-> sourceIdByUrl(db, url) # 0]

\* The call returns: what the caller gets is path, url, status and sourceId
\* (the other fields are history for the properties).
Finish(p, status) ==
  [p EXCEPT !.pc = "finished", !.status = status, !.row = 0, !.attempts = 0,
            !.err = NoMessage, !.finalSourceId = 0]

InitIngest ==
  /\ sse = SseInit
  /\ sig = [req |-> FALSE, ac |-> FALSE, at |-> "none"]
  /\ env = DefaultEnv
  /\ \E q \in QueueChoices : db = [EmptyDb EXCEPT !.ingestQueue = q]
  /\ run = RunInit
  /\ ml = IdleMl
  /\ emitted = <<>>
  /\ route = "idle"
  /\ idgen = FirstFreeId
  /\ \E fk \in BOOLEAN : ingest = [NoIngest EXCEPT !.foreignKeys = fk]
  /\ dec = NoDecoder
  /\ gen = NoGen
  /\ call = NoCall

rest == <<sse, sig, env, run, ml, emitted, route, dec, gen, call>>

Procs == DOMAIN ingest.procs
At(i, path, pc) == ingest.procs[i].path \in path /\ ingest.procs[i].pc = pc
SetProc(i, p) == ingest' = [ingest EXCEPT !.procs[i] = p]
Direct == {"ingestUrl", "ingestNow"}

\* A row that references sources.id can be written when the foreign keys
\* are not enforced or the source row exists.
refOk(d, sourceId) ==
  \/ ~ingest.foreignKeys
  \/ \E x \in d.sources : x.id = sourceId

insertContent(d, sourceId) ==
  IF \E x \in d.sourceContent : x.sourceId = sourceId THEN d
  ELSE [d EXCEPT !.sourceContent = @ \cup {[sourceId |-> sourceId]}]

insertChunks(d, chunkId, sourceId) ==
  [d EXCEPT !.chunks = @ \cup
     {[id |-> chunkId, sourceId |-> sourceId, pos |-> 0, len |-> 4000]}]

\* update ingest_queue set ... where id = row: no condition on the status.
updateQueue(d, row, status, attempts, error) ==
  [d EXCEPT !.ingestQueue[row] =
     [@ EXCEPT !.status = status, !.attempts = attempts, !.error = error,
               !.stale = FALSE]]

setStatus(d, row, status) ==
  [d EXCEPT !.ingestQueue[row] = [@ EXCEPT !.status = status, !.stale = FALSE]]

\* A caller starts ingestUrl (the orchestrator's read stage) or ingestNow
\* (POST /ingest with mode "now").
StartDirect ==
  /\ Len(ingest.procs) < MaxActive
  /\ ingest.started < MaxStarts
  /\ \E path \in Direct, url \in IngestUrls :
       ingest' = [ingest EXCEPT !.procs = Append(@, NewProc(path, "d_select", url, 0)),
                                !.started = @ + 1]
  /\ UNCHANGED <<db, idgen>>
  /\ UNCHANGED rest

\* select the source by url; an existing one ends the call without a read.
DirectSelect ==
  \E i \in Procs :
    /\ At(i, Direct, "d_select")
    /\ LET p == ingest.procs[i]
           existing == sourceIdByUrl(db, p.url)
       IN IF existing # 0
            THEN SetProc(i, Finish([p EXCEPT !.sawExisting = TRUE,
                                             !.sourceId = existing],
                                   IF p.path = "ingestNow" THEN "exists" ELSE "ok"))
            ELSE SetProc(i, [p EXCEPT !.pc = "d_read"])
    /\ UNCHANGED <<db, idgen>>
    /\ UNCHANGED rest

\* readUrl settles; on success the id of the new source is drawn.
DirectRead ==
  \E i \in Procs :
    /\ At(i, Direct, "d_read")
    /\ LET p == ingest.procs[i]
       IN \/ /\ SetProc(i, [p EXCEPT !.pc = "d_insertSource", !.didRead = TRUE,
                                     !.sourceId = idgen])
             /\ idgen' = idgen + 1
          \/ /\ \E e \in ReadErrors :
                  SetProc(i, Finish([p EXCEPT !.didRead = TRUE, !.err = e], "error"))
             /\ idgen' = idgen
    /\ UNCHANGED db
    /\ UNCHANGED rest

DirectInsertSource ==
  \E i \in Procs :
    /\ At(i, Direct, "d_insertSource")
    /\ LET p == ingest.procs[i]
       IN /\ db' = insertSource(db, [id |-> p.sourceId, url |-> p.url])
          /\ SetProc(i, [p EXCEPT !.pc = "d_insertContent"])
    /\ UNCHANGED idgen
    /\ UNCHANGED rest

\* The content row and the chunk rows carry the id drawn by this call, also
\* when the source insert was skipped on a conflict.
DirectInsertContent ==
  \E i \in Procs :
    /\ At(i, Direct, "d_insertContent")
    /\ LET p == ingest.procs[i]
       IN IF refOk(db, p.sourceId)
            THEN /\ db' = insertChunks(insertContent(db, p.sourceId), idgen, p.sourceId)
                 /\ idgen' = idgen + 1
                 /\ SetProc(i, IF p.path = "ingestNow" THEN Finish(p, "ok")
                                ELSE [p EXCEPT !.pc = "d_selectRow"])
            ELSE /\ db' = db
                 /\ idgen' = idgen
                 /\ SetProc(i, Finish(p, "error"))
    /\ UNCHANGED rest

\* ingestUrl reads its row back by id; without one row.domain throws.
DirectSelectRow ==
  \E i \in Procs :
    /\ At(i, {"ingestUrl"}, "d_selectRow")
    /\ LET p == ingest.procs[i]
       IN SetProc(i, Finish(p, IF \E x \in db.sources : x.id = p.sourceId
                                 THEN "ok" ELSE "error"))
    /\ UNCHANGED <<db, idgen>>
    /\ UNCHANGED rest

\* The caller has the result of a finished call.
RemoveAt(q, i) == SubSeq(q, 1, i - 1) \o SubSeq(q, i + 1, Len(q))
Return ==
  \E i \in Procs :
    /\ ingest.procs[i].pc = "finished"
    /\ ingest' = [ingest EXCEPT !.procs = RemoveAt(@, i)]
    /\ UNCHANGED <<db, idgen>>
    /\ UNCHANGED rest

\* Time passes: a row in processing gets older than reviveStaleSec.
GoStale ==
  /\ \E r \in DOMAIN db.ingestQueue :
       /\ db.ingestQueue[r].status = "processing"
       /\ ~db.ingestQueue[r].stale
       /\ db' = [db EXCEPT !.ingestQueue[r].stale = TRUE]
  /\ UNCHANGED <<ingest, idgen>>
  /\ UNCHANGED rest

\* GET or POST /api/jobs/ingest: handle starts with reviveStaleProcessing,
\* whose first statement selects the stale ids.
StartJob ==
  /\ ingest.job.pc = "idle"
  /\ ingest.started < MaxStarts
  /\ LET stale == {r \in DOMAIN db.ingestQueue :
                     db.ingestQueue[r].status = "processing" /\ db.ingestQueue[r].stale}
     IN ingest' = [ingest EXCEPT !.started = @ + 1,
                                 !.job = [pc |-> IF stale = {} THEN "j_claim"
                                                 ELSE "j_reviveUpdate",
                                          ids |-> stale]]
  /\ UNCHANGED <<db, idgen>>
  /\ UNCHANGED rest

\* reviveStaleProcessing, the update where id in (ids).
ReviveUpdate ==
  /\ ingest.job.pc = "j_reviveUpdate"
  /\ db' = [db EXCEPT !.ingestQueue =
               [r \in DOMAIN @ |->
                  IF r \in ingest.job.ids
                    THEN [@[r] EXCEPT !.status = "queued", !.stale = FALSE]
                    ELSE @[r]]]
  /\ ingest' = [ingest EXCEPT !.job = [pc |-> "j_claim", ids |-> {}]]
  /\ UNCHANGED idgen
  /\ UNCHANGED rest

\* claimBatch in one transaction, then mapLimit starts processQueueItem for
\* the rows of the batch.
ClaimBatch ==
  \E limit \in 1..MaxLimit :
    /\ ingest.job.pc = "j_claim"
    /\ Len(ingest.procs) + limit <= MaxActive
    /\ LET queued == {r \in DOMAIN db.ingestQueue : db.ingestQueue[r].status = "queued"}
           order == claimOrder(db.ingestQueue, queued)
           batch == SubSeq(order, 1, IF Len(order) < limit THEN Len(order) ELSE limit)
           items == [k \in DOMAIN batch |->
                       NewProc("queue", "q_select", db.ingestQueue[batch[k]].url, batch[k])]
       IN /\ db' = [db EXCEPT !.ingestQueue =
                      [r \in DOMAIN @ |->
                         IF r \in Range(batch)
                           THEN [@[r] EXCEPT !.status = "processing", !.stale = FALSE]
                           ELSE @[r]]]
          /\ ingest' = [ingest EXCEPT !.procs = @ \o items, !.job = IdleJob]
    /\ UNCHANGED idgen
    /\ UNCHANGED rest

\* processQueueItem, the select before the try block.
QueueSelect ==
  \E i \in Procs :
    /\ At(i, {"queue"}, "q_select")
    /\ LET p == ingest.procs[i]
           existing == sourceIdByUrl(db, p.url)
       IN IF existing # 0
            THEN SetProc(i, [p EXCEPT !.pc = "q_markDone", !.sawExisting = TRUE,
                                      !.sourceId = existing])
            ELSE SetProc(i, [p EXCEPT !.pc = "q_read"])
    /\ UNCHANGED <<db, idgen>>
    /\ UNCHANGED rest

QueueMarkDone ==
  \E i \in Procs :
    /\ At(i, {"queue"}, "q_markDone")
    /\ db' = setStatus(db, ingest.procs[i].row, "done")
    /\ SetProc(i, Finish(ingest.procs[i], "exists"))
    /\ UNCHANGED idgen
    /\ UNCHANGED rest

QueueRead ==
  \E i \in Procs :
    /\ At(i, {"queue"}, "q_read")
    /\ LET p == ingest.procs[i]
       IN \/ /\ SetProc(i, [p EXCEPT !.pc = "q_insertSource", !.didRead = TRUE,
                                     !.sourceId = idgen])
             /\ idgen' = idgen + 1
          \/ /\ \E e \in ReadErrors :
                  SetProc(i, [p EXCEPT !.pc = "q_catchSelect", !.didRead = TRUE,
                                       !.err = e])
             /\ idgen' = idgen
    /\ UNCHANGED db
    /\ UNCHANGED rest

QueueInsertSource ==
  \E i \in Procs :
    /\ At(i, {"queue"}, "q_insertSource")
    /\ LET p == ingest.procs[i]
       IN /\ db' = insertSource(db, [id |-> p.sourceId, url |-> p.url])
          /\ SetProc(i, [p EXCEPT !.pc = "q_selectAfter"])
    /\ UNCHANGED idgen
    /\ UNCHANGED rest

\* The queue path reads the id of the row that holds the url.
QueueSelectAfter ==
  \E i \in Procs :
    /\ At(i, {"queue"}, "q_selectAfter")
    /\ LET p == ingest.procs[i]
       IN SetProc(i, [p EXCEPT !.pc = "q_insertContent",
                               !.finalSourceId = sourceIdByUrl(db, p.url)])
    /\ UNCHANGED <<db, idgen>>
    /\ UNCHANGED rest

\* The content row and the chunk rows of the queue path.
QueueInsertContent ==
  \E i \in Procs :
    /\ At(i, {"queue"}, "q_insertContent")
    /\ LET p == ingest.procs[i]
       IN /\ db' = insertChunks(insertContent(db, p.finalSourceId), idgen, p.finalSourceId)
          /\ idgen' = idgen + 1
          /\ SetProc(i, [p EXCEPT !.pc = "q_done"])
    /\ UNCHANGED rest

QueueDone ==
  \E i \in Procs :
    /\ At(i, {"queue"}, "q_done")
    /\ db' = setStatus(db, ingest.procs[i].row, "done")
    /\ SetProc(i, Finish(ingest.procs[i], "ok"))
    /\ UNCHANGED idgen
    /\ UNCHANGED rest

\* The catch block reads the attempts of the row.
QueueCatchSelect ==
  \E i \in Procs :
    /\ At(i, {"queue"}, "q_catchSelect")
    /\ LET p == ingest.procs[i]
       IN SetProc(i, [p EXCEPT !.pc = "q_catchWrite",
                               !.attempts = db.ingestQueue[p.row].attempts + 1])
    /\ UNCHANGED <<db, idgen>>
    /\ UNCHANGED rest

\* A catch block that requeues the row and does not count the attempt.
catchWriteRequeue(d, row, attempts, e) ==
  updateQueue(d, row, "queued", d.ingestQueue[row].attempts,
              truncate(e, ErrorTextMax))

\* The catch block writes the count and the status it decided on.
catchWrite(d, row, attempts, e) ==
  updateQueue(d, row, IF attempts < maxAttempts THEN "queued" ELSE "error",
              attempts, truncate(e, ErrorTextMax))

QueueCatchWrite ==
  \E i \in Procs :
    /\ At(i, {"queue"}, "q_catchWrite")
    /\ LET p == ingest.procs[i]
       IN /\ db' = catchWrite(db, p.row, p.attempts, p.err)
          /\ SetProc(i, Finish(p, IF p.attempts < maxAttempts THEN "requeued" ELSE "error"))
    /\ UNCHANGED idgen
    /\ UNCHANGED rest

NextIngest ==
  \/ StartDirect
  \/ DirectSelect
  \/ DirectRead
  \/ DirectInsertSource
  \/ DirectInsertContent
  \/ DirectSelectRow
  \/ StartJob
  \/ GoStale
  \/ ReviveUpdate
  \/ ClaimBatch
  \/ QueueSelect
  \/ QueueMarkDone
  \/ QueueRead
  \/ QueueInsertSource
  \/ QueueSelectAfter
  \/ QueueInsertContent
  \/ QueueDone
  \/ QueueCatchSelect
  \/ QueueCatchWrite
  \/ Return

SpecIngest == InitIngest /\ [][NextIngest]_vars

(***************************************************************************)
(* The SSE wire format and its decoder (sse.ts 84-129, 245-332), on texts  *)
(* that are sequences of characters.  A writer sends events, the bytes     *)
(* reach the decoder in chunks cut anywhere, and the reader flushes the    *)
(* decoder when the stream has ended.                                      *)
(***************************************************************************)
NL == "\n"
CR == "\r"

\* The payloads: JSON values and the text JSON.stringify gives for them.
JsonValues == {"one", "colon", "obj"}
JsonText(v) ==
  CASE v = "one" -> <<"1">>
    [] v = "colon" -> <<"\"", ":", " ", "\"">>
    [] v = "obj" -> <<"{", "\"", "t", "\"", ":", "1", "}">>
JsonData(v) == [kind |-> "json", v |-> v, text |-> <<>>]
Undefined == [kind |-> "undefined", v |-> "", text |-> <<>>]

\* tryParseJSON: the parsed value, or the text itself when it is not JSON.
tryParseJSON(s) ==
  IF \E v \in JsonValues : JsonText(v) = s
    THEN JsonData(CHOOSE v \in JsonValues : JsonText(v) = s)
    ELSE [kind |-> "string", v |-> "", text |-> s]

EventNameChoices == { <<"t", "k">>, <<"d">> }

\* collapseNewlines: s.replace(/[\r\n]+/g, ' ')
RECURSIVE collapseNewlines(_)
collapseNewlines(s) ==
  IF s = <<>> THEN <<>>
  ELSE IF Head(s) \in {NL, CR}
    THEN IF Len(s) > 1 /\ s[2] \in {NL, CR}
           THEN collapseNewlines(Tail(s))
           ELSE <<" ">> \o collapseNewlines(Tail(s))
    ELSE <<Head(s)>> \o collapseNewlines(Tail(s))
sanitizeLine(s) == collapseNewlines(s)

\* Array.prototype.join
RECURSIVE join(_, _)
join(lines, sep) ==
  IF lines = <<>> THEN <<>>
  ELSE IF Len(lines) = 1 THEN lines[1]
  ELSE lines[1] \o sep \o join(Tail(lines), sep)

\* String.prototype.split on one character.
RECURSIVE splitAcc(_, _, _)
splitAcc(s, c, cur) ==
  IF s = <<>> THEN <<cur>>
  ELSE IF Head(s) = c THEN <<cur>> \o splitAcc(Tail(s), c, <<>>)
  ELSE splitAcc(Tail(s), c, Append(cur, Head(s)))
split(s, c) == splitAcc(s, c, <<>>)

\* payload.split(/\r?\n/)
splitPayload(s) ==
  LET parts == split(s, NL)
  IN [k \in DOMAIN parts |->
        IF k < Len(parts) /\ parts[k] # <<>> /\ parts[k][Len(parts[k])] = CR
          THEN SubSeq(parts[k], 1, Len(parts[k]) - 1) ELSE parts[k]]

\* formatEvent (sse.ts 84-125) of a JSON payload with the option event: the
\* lines event and data, then lines.push('') and lines.join('\n').
formatEventText(v, event) ==
  LET payload == JsonText(v)
      head == IF event # <<>>
                THEN << <<"e", "v", "e", "n", "t", ":", " ">> \o sanitizeLine(event) >>
                ELSE <<>>
      body == IF payload # <<>>
                THEN [k \in DOMAIN splitPayload(payload) |->
                        <<"d", "a", "t", "a", ":", " ">> \o splitPayload(payload)[k]]
                ELSE << <<"d", "a", "t", "a", ":">> >>
  IN join(head \o body \o << <<>> >>, <<NL>>)

\* buffer.replace(/\r\n/g, '\n').replace(/\r/g, '\n')
RECURSIVE normalizeNewlines(_)
normalizeNewlines(s) ==
  IF s = <<>> THEN <<>>
  ELSE IF Head(s) = CR
    THEN IF Len(s) > 1 /\ s[2] = NL
           THEN <<NL>> \o normalizeNewlines(Tail(Tail(s)))
           ELSE <<NL>> \o normalizeNewlines(Tail(s))
    ELSE <<Head(s)>> \o normalizeNewlines(Tail(s))

\* buffer.indexOf('\n\n'), counted from 1; 0 when there is none.
indexOfBlankLine(s) ==
  IF \E i \in 1..(Len(s) - 1) : s[i] = NL /\ s[i + 1] = NL
    THEN CHOOSE i \in 1..(Len(s) - 1) :
           /\ s[i] = NL /\ s[i + 1] = NL
           /\ \A j \in 1..(i - 1) : ~(s[j] = NL /\ s[j + 1] = NL)
    ELSE 0

\* rawLine.indexOf(':'), counted from 1; 0 when there is none.
indexOfColon(s) ==
  IF \E i \in DOMAIN s : s[i] = ":"
    THEN CHOOSE i \in DOMAIN s : s[i] = ":" /\ \A j \in 1..(i - 1) : s[j] # ":"
    ELSE 0

NoFields == [event |-> <<>>, dataLines |-> <<>>, comment |-> <<>>]

\* The loop over the lines of one block (sse.ts 270-302).
RECURSIVE parseLines(_, _)
parseLines(lines, acc) ==
  IF lines = <<>> THEN acc
  ELSE LET rawLine == Head(lines)
           sep == indexOfColon(rawLine)
           field == IF sep = 0 THEN rawLine ELSE SubSeq(rawLine, 1, sep - 1)
           after == IF sep = 0 THEN <<>> ELSE SubSeq(rawLine, sep + 1, Len(rawLine))
           value == IF after # <<>> /\ Head(after) = " " THEN Tail(after) ELSE after
       IN IF rawLine = <<>> THEN parseLines(Tail(lines), acc)
          ELSE IF Head(rawLine) = ":"
            THEN parseLines(Tail(lines),
                            [acc EXCEPT !.comment = trimStart(Tail(rawLine))])
          ELSE IF field = <<"e", "v", "e", "n", "t">>
            THEN parseLines(Tail(lines), [acc EXCEPT !.event = value])
          ELSE IF field = <<"d", "a", "t", "a">>
            THEN parseLines(Tail(lines), [acc EXCEPT !.dataLines = Append(@, value)])
          ELSE parseLines(Tail(lines), acc)

\* The event of one block (sse.ts 304-317).
decodeBlock(block) ==
  LET f == parseLines(split(block, NL), NoFields)
      joined == join(f.dataLines, <<NL>>)
  IN [event |-> IF f.event # <<>> THEN f.event
                ELSE <<"m", "e", "s", "s", "a", "g", "e">>,
      data |-> IF joined # <<>> THEN tryParseJSON(joined) ELSE Undefined]

\* The while loop of push: the blocks that end with a blank line.
RECURSIVE drain(_)
drain(d) ==
  LET idx == indexOfBlankLine(d.buffer)
      block == SubSeq(d.buffer, 1, idx - 1)
      next == SubSeq(d.buffer, idx + 2, Len(d.buffer))
  IN IF idx = 0 THEN d
     ELSE IF trim(block) = <<>> THEN drain([d EXCEPT !.buffer = next])
     ELSE drain([buffer |-> next, events |-> Append(d.events, decodeBlock(block))])

\* push(chunk) (sse.ts 248-321); the events it returns are appended to
\* those the reader already has.
push(d, chunk) ==
  IF chunk = <<>> THEN d
  ELSE drain([d EXCEPT !.buffer = normalizeNewlines(d.buffer \o chunk)])

\* flush() (sse.ts 324-331): the buffer is emptied before push('\n\n').
flush(d) ==
  IF trim(d.buffer) = <<>> THEN [d EXCEPT !.buffer = <<>>]
  ELSE push([d EXCEPT !.buffer = <<>>], <<NL, NL>>)

CodecCall == [fn |-> "codec", sent |-> <<>>, wire |-> <<>>, ended |-> FALSE,
              flushed |-> FALSE]

InitCodec ==
  /\ sse = SseInit
  /\ sig = [req |-> FALSE, ac |-> FALSE, at |-> "none"]
  /\ env = DefaultEnv
  /\ db = EmptyDb
  /\ run = RunInit
  /\ ml = IdleMl
  /\ emitted = <<>>
  /\ route = "idle"
  /\ idgen = FirstFreeId
  /\ ingest = NoIngest
  /\ dec = NoDecoder
  /\ gen = NoGen
  /\ call = CodecCall

codecRest == <<sse, sig, env, db, run, ml, emitted, route, idgen, ingest, gen>>

\* send(data, {event}) on an open stream.
CodecSend ==
  /\ ~call.ended
  /\ Len(call.sent) < MaxEvents
  /\ \E event \in EventNameChoices, v \in JsonValues :
       call' = [call EXCEPT !.sent = Append(@, [event |-> event, data |-> JsonData(v)]),
                            !.wire = @ \o formatEventText(v, event)]
  /\ UNCHANGED dec
  /\ UNCHANGED codecRest

\* The writer closes the stream.
CodecEnd ==
  /\ ~call.ended
  /\ call' = [call EXCEPT !.ended = TRUE]
  /\ UNCHANGED dec
  /\ UNCHANGED codecRest

\* The reader gets the next bytes, cut anywhere, and pushes them.
DecoderPush ==
  /\ \E n \in 1..Len(call.wire) :
       /\ dec' = push(dec, SubSeq(call.wire, 1, n))
       /\ call' = [call EXCEPT !.wire = SubSeq(@, n + 1, Len(@))]
  /\ UNCHANGED codecRest

\* The stream is done: the reader flushes the decoder.
DecoderFlush ==
  /\ call.ended
  /\ call.wire = <<>>
  /\ ~call.flushed
  /\ dec' = flush(dec)
  /\ call' = [call EXCEPT !.flushed = TRUE]
  /\ UNCHANGED codecRest

NextCodec ==
  \/ CodecSend
  \/ CodecEnd
  \/ DecoderPush
  \/ DecoderFlush

SpecCodec == InitCodec /\ [][NextCodec]_vars

(***************************************************************************)
(* The id generator (env.ts 211-377): ulid, id, isUlid, ulidTimestamp.     *)
(* The clock is any value of 0..MaxClock at every call, and the random     *)
(* part is drawn from a few representatives of the 32^16 values.           *)
(***************************************************************************)
ALPHABET ==
  <<"0", "1", "2", "3", "4", "5", "6", "7", "8", "9", "A", "B", "C", "D", "E",
    "F", "G", "H", "J", "K", "M", "N", "P", "Q", "R", "S", "T", "V", "W", "X",
    "Y", "Z">>
TIME_LEN == 10
RAND_LEN == 16
ID_LEN == TIME_LEN + RAND_LEN

\* The digits and capital letters in the order of their UTF-16 code units,
\* which is the order JavaScript compares strings by.
CodeUnitOrder ==
  <<"0", "1", "2", "3", "4", "5", "6", "7", "8", "9", "A", "B", "C", "D", "E",
    "F", "G", "H", "I", "J", "K", "L", "M", "N", "O", "P", "Q", "R", "S", "T",
    "U", "V", "W", "X", "Y", "Z">>
codeUnit(c) == CHOOSE k \in DOMAIN CodeUnitOrder : CodeUnitOrder[k] = c

\* a < b for two strings.
RECURSIVE lexLess(_, _)
lexLess(a, b) ==
  IF b = <<>> THEN FALSE
  ELSE IF a = <<>> THEN TRUE
  ELSE IF Head(a) = Head(b) THEN lexLess(Tail(a), Tail(b))
  ELSE codeUnit(Head(a)) < codeUnit(Head(b))

\* CHAR_INDEX[c], counted from 0; -1 for undefined.
CHAR_INDEX(c) ==
  IF \E k \in DOMAIN ALPHABET : ALPHABET[k] = c
    THEN (CHOOSE k \in DOMAIN ALPHABET : ALPHABET[k] = c) - 1
    ELSE -1

\* encodeTime(ms): TIME_LEN digits, the most significant first.
RECURSIVE encodeTimeDigits(_, _)
encodeTimeDigits(time, n) ==
  IF n = 0 THEN <<>>
  ELSE Append(encodeTimeDigits(time \div 32, n - 1), ALPHABET[(time % 32) + 1])
encodeTime(ms) == encodeTimeDigits(ms, TIME_LEN)

\* The random parts a call can draw: all zero, all 31, and a last digit of
\* 31 (the next increment carries).
RandChoices ==
  { [i \in 1..RAND_LEN |-> 0], [i \in 1..RAND_LEN |-> 31],
    [i \in 1..RAND_LEN |-> IF i = RAND_LEN THEN 31 ELSE 0] }

\* An increment of the last digit alone, without the carry.
incrementBase32NoCarry(arr) ==
  IF arr = <<>> THEN <<>>
  ELSE [arr EXCEPT ![Len(arr)] = (@ + 1) % 32]

\* incrementBase32(arr): plus one as a base-32 number; all 31 wraps to zeros.
RECURSIVE incrementBase32(_)
incrementBase32(arr) ==
  IF arr = <<>> THEN <<>>
  ELSE IF arr[Len(arr)] < 31 THEN [arr EXCEPT ![Len(arr)] = @ + 1]
  ELSE Append(incrementBase32(SubSeq(arr, 1, Len(arr) - 1)), 0)

encodeRandom(arr) == [i \in DOMAIN arr |-> ALPHABET[arr[i] + 1]]

\* isUlid(s): the length and the charset.
isUlid(s) == Len(s) = ID_LEN /\ \A i \in DOMAIN s : CHAR_INDEX(s[i]) # -1

\* ulidTimestamp(s): the first TIME_LEN characters as a base-32 number.
RECURSIVE decodeDigits(_)
decodeDigits(s) ==
  IF s = <<>> THEN 0
  ELSE decodeDigits(SubSeq(s, 1, Len(s) - 1)) * 32 + CHAR_INDEX(s[Len(s)])
ulidTimestamp(s) == decodeDigits(SubSeq(s, 1, TIME_LEN))

\* ulid(ms) with Date.now() = clock when ms is left out (ms = -1 here) and
\* rnd what randomPart() gives if it is called: the new generator state,
\* with the id appended to the ids returned so far.
ulid(g, ms, rnd) ==
  LET now == Max(IF ms = -1 THEN g.clock ELSE ms, 0)
      time == Max(now, g.lastTimeMs)
      same == time = g.lastTimeMs /\ g.lastRandom # <<>>
      rand == IF same THEN incrementBase32(g.lastRandom) ELSE rnd
  IN [g EXCEPT !.lastTimeMs = time,
               !.lastRandom = rand,
               !.ids = Append(@, [id |-> encodeTime(time) \o encodeRandom(rand),
                                  clock |-> g.clock,
                                  wrapped |-> same /\ \A i \in DOMAIN g.lastRandom :
                                                        g.lastRandom[i] = 31])]

InitUlid ==
  /\ sse = SseInit
  /\ sig = [req |-> FALSE, ac |-> FALSE, at |-> "none"]
  /\ env = DefaultEnv
  /\ db = EmptyDb
  /\ run = RunInit
  /\ ml = IdleMl
  /\ emitted = <<>>
  /\ route = "idle"
  /\ idgen = FirstFreeId
  /\ ingest = NoIngest
  /\ dec = NoDecoder
  /\ \E c \in 0..MaxClock : gen = [NoGen EXCEPT !.clock = c]
  /\ call = NoCall

ulidRest == <<sse, sig, env, db, run, ml, emitted, route, idgen, ingest, dec, call>>

\* The system clock changes, forwards or backwards.
ClockStep ==
  /\ \E c \in 0..MaxClock : c # gen.clock /\ gen' = [gen EXCEPT !.clock = c]
  /\ UNCHANGED ulidRest

\* id(), which is ulid() without a timestamp.
CallId ==
  /\ Len(gen.ids) < MaxIds
  /\ \E rnd \in RandChoices : gen' = ulid(gen, -1, rnd)
  /\ UNCHANGED ulidRest

\* ulid(ms) with a timestamp of the caller.
CallUlidAt ==
  /\ Len(gen.ids) < MaxIds
  /\ \E ms \in 0..(MaxClock + 1), rnd \in RandChoices : gen' = ulid(gen, ms, rnd)
  /\ UNCHANGED ulidRest

NextUlid ==
  \/ ClockStep
  \/ CallId
  \/ CallUlidAt

SpecUlid == InitUlid /\ [][NextUlid]_vars

(***************************************************************************)
(* splitIntoWindows and the chunk rows of an ingest (text.ts 74-169,       *)
(* deepresearch.ts 765-786).  A text is kept run-length encoded: a         *)
(* sequence of runs [c, n], n copies of the character c, with no empty run *)
(* and no two neighbours of the same character.                            *)
(***************************************************************************)
Run(c, n) == [c |-> c, n |-> n]

RECURSIVE lenR(_)
lenR(t) == IF t = <<>> THEN 0 ELSE Head(t).n + lenR(Tail(t))

appendRun(t, r) ==
  IF r.n = 0 THEN t
  ELSE IF t = <<>> THEN <<r>>
  ELSE IF t[Len(t)].c = r.c THEN [t EXCEPT ![Len(t)].n = @ + r.n]
  ELSE Append(t, r)

\* a + b
RECURSIVE concatR(_, _)
concatR(a, b) == IF b = <<>> THEN a ELSE concatR(appendRun(a, Head(b)), Tail(b))

\* t.slice(from, to), offsets from 0, to exclusive.
RECURSIVE sliceR(_, _, _)
sliceR(t, from, to) ==
  IF t = <<>> \/ to <= 0 THEN <<>>
  ELSE LET h == Head(t)
           lo == Min(Max(from, 0), h.n)
           hi == Min(to, h.n)
       IN concatR(IF hi > lo THEN <<Run(h.c, hi - lo)>> ELSE <<>>,
                  sliceR(Tail(t), from - h.n, to - h.n))

\* splitParagraphs(s): the stretches between the runs of two or more
\* newlines, with their offsets.
RECURSIVE paraScan(_, _, _, _, _)
paraScan(runs, offset, last, out, s) ==
  IF runs = <<>>
    THEN IF last < lenR(s)
           THEN Append(out, [text |-> sliceR(s, last, lenR(s)), start |-> last,
                             end |-> lenR(s)])
           ELSE out
    ELSE LET h == Head(runs)
         IN IF h.c = NL /\ h.n >= 2
              THEN paraScan(Tail(runs), offset + h.n, offset + h.n,
                            IF offset > last
                              THEN Append(out, [text |-> sliceR(s, last, offset),
                                                start |-> last, end |-> offset])
                              ELSE out,
                            s)
              ELSE paraScan(Tail(runs), offset + h.n, last, out, s)
splitParagraphs(s) == paraScan(s, 0, 0, <<>>, s)

\* The options ingestUrl passes (deepresearch.ts 765-770).
targetTokens == 1000
charsPerToken == 4
overlapPercent == 15
targetChars == Max(50, targetTokens) * Max(1, charsPerToken)
overlapChars == (targetChars * overlapPercent) \div 100

Window(text, charStart, charEnd) ==
  [text |-> text, charStart |-> charStart, charEnd |-> charEnd]

\* The loop over the paragraphs (text.ts 103-123) and the last push.
RECURSIVE windowsLoop(_, _, _)
windowsLoop(paras, st, s) ==
  IF paras = <<>>
    THEN IF st.buf # <<>>
           THEN Append(st.windows, Window(st.buf, st.bufStart, st.lastEnd))
           ELSE st.windows
    ELSE LET p == Head(paras)
             add == IF st.buf # <<>> THEN concatR(<<Run(NL, 2)>>, p.text) ELSE p.text
             overlapStart == Max(st.bufStart, st.lastEnd - overlapChars)
             joined == concatR(st.buf, add)
         IN IF lenR(joined) > targetChars /\ st.buf # <<>>
              THEN windowsLoop(Tail(paras),
                     [buf |-> concatR(concatR(sliceR(s, overlapStart, st.lastEnd),
                                              <<Run(NL, 2)>>), p.text),
                      bufStart |-> overlapStart,
                      lastEnd |-> p.end,
                      windows |-> Append(st.windows,
                                         Window(st.buf, st.bufStart, st.lastEnd))],
                     s)
              ELSE windowsLoop(Tail(paras),
                     [buf |-> joined,
                      bufStart |-> IF st.bufStart = 0 /\ joined # <<>>
                                     THEN p.start ELSE st.bufStart,
                      lastEnd |-> p.end,
                      windows |-> st.windows],
                     s)

\* splitIntoWindows(s, {targetTokens, overlapRatio, charsPerToken,
\* respectParagraphs: true}).
splitIntoWindows(s) ==
  IF s = <<>> \/ lenR(s) <= targetChars
    THEN << Window(s, 0, lenR(s)) >>
    ELSE LET paras == splitParagraphs(s)
             bufStart == IF paras # <<>> THEN paras[1].start ELSE 0
         IN windowsLoop(paras, [buf |-> <<>>, bufStart |-> bufStart,
                                lastEnd |-> bufStart, windows |-> <<>>], s)

\* The pages: paragraphs of these lengths, each of its own letter, with
\* runs of newlines of these lengths between, before and after them.
ParaLens == {10, 1500, 3000, 4500}
SepLens == {1, 2, 3}
Letters == <<"a", "b", "c", "d">>

SplitCall == [fn |-> "split", text |-> <<>>, paras |-> 0, stored |-> FALSE,
              chunks |-> <<>>]

InitSplit ==
  /\ sse = SseInit
  /\ sig = [req |-> FALSE, ac |-> FALSE, at |-> "none"]
  /\ env = DefaultEnv
  /\ db = EmptyDb
  /\ run = RunInit
  /\ ml = IdleMl
  /\ emitted = <<>>
  /\ route = "idle"
  /\ idgen = FirstFreeId
  /\ ingest = NoIngest
  /\ dec = NoDecoder
  /\ gen = NoGen
  /\ call = SplitCall

splitRest == <<sse, sig, env, db, run, ml, emitted, route, idgen, ingest, dec, gen>>

\* The page that readUrl returns grows by a paragraph.
PageParagraph ==
  /\ ~call.stored
  /\ call.paras < MaxParas
  /\ \E n \in ParaLens :
       call' = [call EXCEPT !.text = appendRun(@, Run(Letters[call.paras + 1], n)),
                            !.paras = @ + 1]
  /\ UNCHANGED splitRest

\* The page grows by newlines.
PageNewlines ==
  /\ ~call.stored
  /\ IF call.text = <<>> THEN TRUE ELSE call.text[Len(call.text)].c # NL
  /\ \E k \in SepLens : call' = [call EXCEPT !.text = appendRun(@, Run(NL, k))]
  /\ UNCHANGED splitRest

\* The ingest stores the text and one chunk row for each window.
StoreChunks ==
  /\ ~call.stored
  /\ LET windows == splitIntoWindows(call.text)
     IN call' = [call EXCEPT !.stored = TRUE,
                             !.chunks = [k \in DOMAIN windows |->
                                           [pos |-> k - 1,
                                            charStart |-> windows[k].charStart,
                                            charEnd |-> windows[k].charEnd,
                                            text |-> windows[k].text]]]
  /\ UNCHANGED splitRest

NextSplit ==
  \/ PageParagraph
  \/ PageNewlines
  \/ StoreChunks

SpecSplit == InitSplit /\ [][NextSplit]_vars

(***************************************************************************)
(* findQuoteOffsets (text.ts 409-516) on sequences of characters.  The     *)
(* characters that are not ASCII are written by name: "ndash" is U+2013.   *)
(***************************************************************************)
FindAlphabet == {"a", "A", " ", "\n", "-", "ndash"}

CurlyDouble == {"ldquo", "rdquo", "bdquo", "raquo", "laquo"}
CurlySingle == {"lsquo", "rsquo", "sbquo", "lsaquo", "rsaquo"}
Dashes == {"mdash", "ndash", "hyphen2010", "nbhyphen", "figdash"}

toLowerCase(c) == IF c = "A" THEN "a" ELSE c
isSpace(c) == c \in {" ", "\n"}

\* normChar of tolerantFind with every option on (text.ts 451-460).
normChar(c) ==
  LET c1 == toLowerCase(c)
      c2 == IF c1 \in CurlyDouble THEN "\"" ELSE IF c1 \in CurlySingle THEN "'" ELSE c1
      c3 == IF c2 \in Dashes THEN "-" ELSE c2
  IN IF isSpace(c3) THEN " " ELSE c3

\* The normalized needle: runs of whitespace become one space (461-473).
RECURSIVE normNeedleOf(_, _)
normNeedleOf(needle, lastWasSpace) ==
  IF needle = <<>> THEN <<>>
  ELSE LET n == normChar(Head(needle))
       IN IF n = " "
            THEN (IF lastWasSpace THEN <<>> ELSE <<" ">>) \o normNeedleOf(Tail(needle), TRUE)
            ELSE <<n>> \o normNeedleOf(Tail(needle), FALSE)

\* hay.indexOf(needle), counted from 0; -1 when there is none.
indexOf(hay, needle) ==
  LET at == {i \in 0..(Len(hay) - Len(needle)) :
               SubSeq(hay, i + 1, i + Len(needle)) = needle}
  IN IF at = {} THEN -1 ELSE CHOOSE i \in at : \A j \in at : i <= j

\* The inner while loop from hay offset hi and needle offset nj (481-499):
\* the hay offset after the last needle character, -1 on a mismatch or at
\* the end of hay.
RECURSIVE walk(_, _, _, _)
walk(hay, nn, hi, nj) ==
  IF nj = Len(nn) THEN hi
  ELSE IF hi >= Len(hay) THEN -1
  ELSE IF normChar(hay[hi + 1]) = nn[nj + 1] THEN walk(hay, nn, hi + 1, nj + 1)
  ELSE -1

\* The extension of end over the whitespace that follows (502-504).
RECURSIVE skipSpaces(_, _)
skipSpaces(hay, end) ==
  IF end < Len(hay) /\ isSpace(hay[end + 1]) THEN skipSpaces(hay, end + 1) ELSE end

NoMatch == [found |-> FALSE, start |-> 0, end |-> 0]

\* tolerantFind(hay, needle, opts) with the defaults of findQuoteOffsets.
tolerantFind(hay, needle) ==
  LET nn == normNeedleOf(needle, FALSE)
      hits == {i \in 0..(Len(hay) - 1) :
                 normChar(hay[i + 1]) = nn[1] /\ walk(hay, nn, i, 0) # -1}
  IN IF nn = <<>> \/ hits = {} THEN NoMatch
     ELSE LET i == CHOOSE x \in hits : \A y \in hits : x <= y
              hi == walk(hay, nn, i, 0)
          IN [found |-> TRUE, start |-> i,
              end |-> IF nn[Len(nn)] = " " THEN skipSpaces(hay, hi) ELSE hi]

\* findQuoteOffsets(text, quote) without options.
findQuoteOffsets(text, quote) ==
  IF text = <<>> \/ quote = <<>> THEN NoMatch
  ELSE LET idx == indexOf(text, quote)
       IN IF idx # -1 THEN [found |-> TRUE, start |-> idx, end |-> idx + Len(quote)]
          ELSE tolerantFind(text, quote)

FindCall == [fn |-> "find", hay |-> <<>>, needle |-> <<>>, done |-> FALSE,
             result |-> NoMatch]

InitFind ==
  /\ sse = SseInit
  /\ sig = [req |-> FALSE, ac |-> FALSE, at |-> "none"]
  /\ env = DefaultEnv
  /\ db = EmptyDb
  /\ run = RunInit
  /\ ml = IdleMl
  /\ emitted = <<>>
  /\ route = "idle"
  /\ idgen = FirstFreeId
  /\ ingest = NoIngest
  /\ dec = NoDecoder
  /\ gen = NoGen
  /\ call = FindCall

findRest == <<sse, sig, env, db, run, ml, emitted, route, idgen, ingest, dec, gen>>

\* The caller's text gets one more character.
HayChar ==
  /\ ~call.done
  /\ call.needle = <<>>
  /\ Len(call.hay) < MaxHay
  /\ \E c \in FindAlphabet : call' = [call EXCEPT !.hay = Append(@, c)]
  /\ UNCHANGED findRest

\* The caller's quote gets one more character.
NeedleChar ==
  /\ ~call.done
  /\ Len(call.needle) < MaxNeedle
  /\ \E c \in FindAlphabet : call' = [call EXCEPT !.needle = Append(@, c)]
  /\ UNCHANGED findRest

FindQuote ==
  /\ ~call.done
  /\ call' = [call EXCEPT !.done = TRUE,
                          !.result = findQuoteOffsets(call.hay, call.needle)]
  /\ UNCHANGED findRest

NextFind ==
  \/ HayChar
  \/ NeedleChar
  \/ FindQuote

SpecFind == InitFind /\ [][NextFind]_vars

(***************************************************************************)
(* POST /verify and verifyClaims (research/route.ts 167-236, messages.ts   *)
(* 221-287, 297-349).  Source ids are 1, 3 and 99, chunk ids 2, 4 and 98;  *)
(* the database holds the sources 1 and 3 with the chunks 2 and 4.         *)
(***************************************************************************)
VerifyDb ==
  [EmptyDb EXCEPT !.sources = {[id |-> 1, url |-> "u1"], [id |-> 3, url |-> "u2"]},
                  !.chunks = {[id |-> 2, sourceId |-> 1, pos |-> 0, len |-> 3],
                              [id |-> 4, sourceId |-> 3, pos |-> 0, len |-> 3]}]

\* The text of every chunk row of VerifyDb.
ChunkText == <<"a", " ", "b">>

\* The snippets of a request body: at least one (BodySchema); chunkId is
\* optional (NoChunk).
SnippetChoices ==
  { {[sourceId |-> 1, chunkId |-> 2]}, {[sourceId |-> 1, chunkId |-> NoChunk]},
    {[sourceId |-> 1, chunkId |-> 2], [sourceId |-> 3, chunkId |-> 4]},
    {[sourceId |-> 3, chunkId |-> 4]} }

\* The evidence items the model can return: VerifiedClaimSchema takes any
\* strings for sourceId, chunkId and quote.
VerifyEvidence ==
  {[sourceId |-> x[1], chunkId |-> x[2], quote |-> q, bound |-> FALSE] :
     x \in {<<1, 2>>, <<1, NoChunk>>, <<3, 4>>, <<1, 4>>, <<99, 98>>},
     q \in { <<"a">>, <<"-">> }}

\* What step 3 of verifyClaims has after parseJSON and safeParse: the claims
\* of the output, none when the output does not parse or fails the schema.
VerifyOutputs ==
  UNION {[1..n -> {[text |-> "claim", evidence |-> ev] :
                     ev \in {<<>>} \cup {<<x>> : x \in VerifyEvidence}}]
           : n \in 0..MaxClaims}

\* The loader of the route: the text of the chunk row, null without a row.
chunkTextById(d, chunkId) ==
  IF \E c \in d.chunks : c.id = chunkId THEN ChunkText ELSE <<>>

\* bindEvidenceOffsetsInPlace: offsets for the evidence whose chunk text is
\* loaded and holds the quote; no evidence item is removed.
bindEvidenceOffsets(verified, d) ==
  [k \in DOMAIN verified |->
     [verified[k] EXCEPT !.evidence =
        [j \in DOMAIN @ |->
           IF /\ @[j].chunkId # NoChunk
              /\ chunkTextById(d, @[j].chunkId) # <<>>
              /\ findQuoteOffsets(chunkTextById(d, @[j].chunkId), @[j].quote).found
             THEN [@[j] EXCEPT !.bound = TRUE]
             ELSE @[j]]]]

VerifyCall == [fn |-> "verify", pc |-> "idle", snippets |-> {}, bindOffsets |-> TRUE,
               verified |-> <<>>, result |-> <<>>]

InitVerify ==
  /\ sse = SseInit
  /\ sig = [req |-> FALSE, ac |-> FALSE, at |-> "none"]
  /\ env = DefaultEnv
  /\ db = VerifyDb
  /\ run = RunInit
  /\ ml = IdleMl
  /\ emitted = <<>>
  /\ route = "idle"
  /\ idgen = FirstFreeId
  /\ ingest = NoIngest
  /\ dec = NoDecoder
  /\ gen = NoGen
  /\ call = VerifyCall

verifyRest == <<sse, sig, env, db, run, ml, emitted, route, idgen, ingest, dec, gen>>

\* POST /verify with a valid body: verifyClaims builds the prompt and calls
\* the model.
VerifyPost ==
  /\ call.pc = "idle"
  /\ \E sn \in SnippetChoices, b \in BOOLEAN :
       call' = [call EXCEPT !.pc = "llm", !.snippets = sn, !.bindOffsets = b]
  /\ UNCHANGED verifyRest

\* The model call settles: its output is parsed and validated; a call that
\* throws ends in the catch, which returns no claims.
VerifyLlmDone ==
  /\ call.pc = "llm"
  /\ \/ \E out \in VerifyOutputs :
          call' = IF call.bindOffsets /\ out # <<>>
                    THEN [call EXCEPT !.pc = "bind", !.verified = out]
                    ELSE [call EXCEPT !.pc = "done", !.verified = out, !.result = out]
     \/ call' = [call EXCEPT !.pc = "done", !.result = <<>>]
  /\ UNCHANGED verifyRest

\* The chunk texts are loaded and the offsets bound; the response is sent.
VerifyBind ==
  /\ call.pc = "bind"
  /\ call' = [call EXCEPT !.pc = "done",
                          !.result = bindEvidenceOffsets(call.verified, db)]
  /\ UNCHANGED verifyRest

NextVerify ==
  \/ VerifyPost
  \/ VerifyLlmDone
  \/ VerifyBind

SpecVerify == InitVerify /\ [][NextVerify]_vars

(***************************************************************************)
(* The verify stage of deepResearch from the verify call to persistClaims  *)
(* (deepresearch.ts 579-624, 965-1062), with quotes and offsets.  The      *)
(* database is VerifyDb: the sources 1 and 3 with the chunks 2 and 4, each *)
(* with the text ChunkText.                                                *)
(***************************************************************************)
\* The quotes the verify LLM can return and their characters: one that is
\* in the chunk text, one that is there up to whitespace, one that is not.
QuoteChars ==
  [q \in {"a", "a_b", "bbbb"} |->
     CASE q = "a" -> <<"a">>
       [] q = "a_b" -> <<"a", "\n", "b">>
       [] OTHER -> <<"b", "b", "b", "b">>]

\* An optional number that is undefined.
NoOffset == -1

\* What the rank stage hands to the verify stage: the ids of usedSourceRefs
\* and the chunk ids of verifySnippetsBudgeted (the budget can drop a chunk
\* of a used source).
ClaimsContexts ==
  { [sources |-> {1}, chunks |-> {2}],
    [sources |-> {1, 3}, chunks |-> {2, 4}],
    [sources |-> {1, 3}, chunks |-> {2}] }

\* The evidence items of a schema-valid output (types.ts 139-161): any
\* strings for sourceId and chunkId, optional nonnegative offsets.
ClaimsEvidence ==
  {[sourceId |-> x[1], chunkId |-> x[2], quote |-> q,
    charStart |-> o[1], charEnd |-> o[2]] :
     x \in {<<1, 2>>, <<3, 4>>, <<1, 4>>, <<1, NoChunk>>, <<99, 98>>},
     q \in DOMAIN QuoteChars,
     o \in {<<NoOffset, NoOffset>>, <<0, 1>>, <<2, 1>>, <<5, NoOffset>>}}

\* rawVerified (598-601): the claims of the output, none when it does not
\* parse.
ClaimsOutputs ==
  UNION {[1..n -> {[text |-> "claim", evidence |-> ev] :
                     ev \in {<<>>} \cup {<<x>> : x \in ClaimsEvidence}}]
           : n \in 0..MaxClaims}

\* bindOffsetsForEvidence (987-1023) once the select of the chunk texts has
\* returned.
bindOffsetsForEvidence(verified, d) ==
  [k \in DOMAIN verified |->
     [verified[k] EXCEPT !.evidence =
        [j \in DOMAIN @ |->
           LET ev == @[j]
               hay == chunkTextById(d, ev.chunkId)
               offsets == findQuoteOffsets(hay, QuoteChars[ev.quote])
           IN IF ev.chunkId = NoChunk \/ ev.charStart # NoOffset THEN ev
              ELSE IF hay = <<>> THEN ev
              ELSE IF offsets.found
                THEN [ev EXCEPT !.charStart = offsets.start, !.charEnd = offsets.end]
              ELSE ev]]]

\* The claim_evidence row persistClaims inserts for an evidence item
\* (1046-1059).
evidenceRow(id, claimId, ev) ==
  LET charStart == IF ev.charStart = NoOffset THEN 0 ELSE ev.charStart
  IN [id |-> id, claimId |-> claimId, sourceId |-> ev.sourceId,
      chunkId |-> ev.chunkId, quote |-> ev.quote,
      charStart |-> charStart,
      charEnd |-> IF ev.charEnd = NoOffset
                    THEN Max(0, charStart + Len(QuoteChars[ev.quote]))
                    ELSE ev.charEnd]

ClaimsCall == [fn |-> "claims", pc |-> "idle", sources |-> {}, chunks |-> {},
               verified |-> <<>>, persisted |-> 0]

InitClaims ==
  /\ sse = SseInit
  /\ sig = [req |-> FALSE, ac |-> FALSE, at |-> "none"]
  /\ env = DefaultEnv
  /\ db = VerifyDb
  /\ run = RunInit
  /\ ml = IdleMl
  /\ emitted = <<>>
  /\ route = "idle"
  /\ idgen = 4
  /\ ingest = NoIngest
  /\ dec = NoDecoder
  /\ gen = NoGen
  /\ call = ClaimsCall

claimsRest == <<sse, sig, env, run, ml, emitted, route, ingest, dec, gen>>

\* The run reaches the verify call (573-586) with the context of its rank
\* stage.
ClaimsVerifyCall ==
  /\ call.pc = "idle"
  /\ \E c \in ClaimsContexts :
       call' = [call EXCEPT !.pc = "llm", !.sources = c.sources, !.chunks = c.chunks]
  /\ UNCHANGED <<db, idgen>>
  /\ UNCHANGED claimsRest

\* The verify call settles (586-616): the output is parsed and normalized;
\* a TPM error skips the stage and any other error is thrown.
ClaimsVerifyDone ==
  /\ call.pc = "llm"
  /\ \/ \E raw \in ClaimsOutputs :
          call' = [call EXCEPT !.pc = "bind",
                     !.verified = normalizeVerifiedClaims(raw, call.sources, call.chunks)]
     \/ call' = [call EXCEPT !.pc = "done"]
  /\ UNCHANGED <<db, idgen>>
  /\ UNCHANGED claimsRest

\* await bindOffsetsForEvidence(verified) (617).
ClaimsBind ==
  /\ call.pc = "bind"
  /\ LET verified == bindOffsetsForEvidence(call.verified, db)
     IN call' = [call EXCEPT !.verified = verified,
                   !.pc = IF verified = <<>> THEN "done" ELSE "persist"]
  /\ UNCHANGED <<db, idgen>>
  /\ UNCHANGED claimsRest

\* persistClaims (1025-1062), one claim per step: the claim row, then one
\* claim_evidence row per evidence item; a failed insert is thrown.
ClaimsPersist ==
  /\ call.pc = "persist"
  /\ \E ok \in BOOLEAN :
       IF ~ok
         THEN /\ call' = [call EXCEPT !.pc = "done"]
              /\ UNCHANGED <<db, idgen>>
         ELSE LET c == call.verified[call.persisted + 1]
                  claimId == idgen + 1
              IN /\ db' = [db EXCEPT
                      !.claims = @ \cup {[id |-> claimId, messageId |-> 0,
                                          text |-> c.text]},
                      !.claimEvidence = @ \cup
                         {evidenceRow(claimId + j, claimId, c.evidence[j])
                            : j \in DOMAIN c.evidence}]
                 /\ idgen' = idgen + 1 + Len(c.evidence)
                 /\ call' = [call EXCEPT !.persisted = @ + 1,
                               !.pc = IF call.persisted + 1 = Len(call.verified)
                                        THEN "done" ELSE "persist"]
  /\ UNCHANGED claimsRest

NextClaims ==
  \/ ClaimsVerifyCall
  \/ ClaimsVerifyDone
  \/ ClaimsBind
  \/ ClaimsPersist

SpecClaims == InitClaims /\ [][NextClaims]_vars

(***************************************************************************)
(* The full-text index: chunks_fts is an FTS5 table with external content  *)
(* (content='chunks', content_rowid='rowid').  The migration               *)
(* (0000_minor_odin.sql 1-14) creates chunks only; ensureFts5              *)
(* (deepresearch.ts 814-861) creates the index and its triggers when the   *)
(* rank stage of a run begins (275).  A chunk row is its rowid and text;   *)
(* call.index is the set of (rowid, text) pairs the index holds.           *)
(***************************************************************************)
ChunkTexts == {"t1", "t2"}

\* The rowids in use.
Rowids == 1..MaxRows

\* The body of the trigger chunks_ai (826-828).
chunks_ai(index, new) == index \cup {new}

\* The body of the trigger chunks_ad (835-837): the 'delete' command.
chunks_ad(index, old) == index \ {old}

\* An update trigger that only inserts the new row.
chunks_auInsertOnly(index, old, new) == index \cup {new}

\* The body of the trigger chunks_au (844-847).
chunks_au(index, old, new) == chunks_ai(chunks_ad(index, old), new)

\* A database as the migration leaves it: no chunks_fts, no trigger.
FtsCall ==
  [fn |-> "fts", pc |-> "idle", table |-> FALSE, ai |-> FALSE, ad |-> FALSE,
   au |-> FALSE, index |-> {}, rebuilt |-> FALSE, last |-> "none"]

InitFts ==
  /\ sse = SseInit
  /\ sig = [req |-> FALSE, ac |-> FALSE, at |-> "none"]
  /\ env = DefaultEnv
  /\ db = EmptyDb
  /\ run = RunInit
  /\ ml = IdleMl
  /\ emitted = <<>>
  /\ route = "idle"
  /\ idgen = FirstFreeId
  /\ ingest = NoIngest
  /\ dec = NoDecoder
  /\ gen = NoGen
  /\ call = FtsCall

ftsRest == <<sse, sig, env, run, ml, emitted, route, idgen, ingest, dec, gen>>

\* INSERT INTO chunks (an ingest stores a window), with the trigger if it
\* exists.
ChunkInsert ==
  /\ \E r \in Rowids, t \in ChunkTexts :
       LET new == [rowid |-> r, text |-> t]
       IN /\ \A c \in db.chunks : c.rowid # r
          /\ db' = [db EXCEPT !.chunks = @ \cup {new}]
          /\ call' = [call EXCEPT !.last = "insert",
                        !.index = IF call.ai THEN chunks_ai(@, new) ELSE @]
  /\ UNCHANGED ftsRest

\* UPDATE chunks SET text = ..., with the trigger if it exists.
ChunkUpdate ==
  /\ \E old \in db.chunks, t \in ChunkTexts :
       LET new == [old EXCEPT !.text = t]
       IN /\ t # old.text
          /\ db' = [db EXCEPT !.chunks = (@ \ {old}) \cup {new}]
          /\ call' = [call EXCEPT !.last = "update",
                        !.index = IF call.au THEN chunks_au(@, old, new) ELSE @]
  /\ UNCHANGED ftsRest

\* DELETE FROM chunks (also by ON DELETE cascade from sources), with the
\* trigger if it exists.
ChunkDelete ==
  /\ \E old \in db.chunks :
       /\ db' = [db EXCEPT !.chunks = @ \ {old}]
       /\ call' = [call EXCEPT !.last = "delete",
                     !.index = IF call.ad THEN chunks_ad(@, old) ELSE @]
  /\ UNCHANGED ftsRest

\* ensureFts5, first statement (816-822); a statement that fails is thrown
\* to the rank stage.
EnsureTable ==
  /\ call.pc = "idle"
  /\ \E ok \in BOOLEAN :
       call' = IF ok THEN [call EXCEPT !.pc = "ai", !.table = TRUE] ELSE call
  /\ UNCHANGED <<db>>
  /\ UNCHANGED ftsRest

\* CREATE TRIGGER IF NOT EXISTS chunks_ai (824-831).
EnsureTriggerAi ==
  /\ call.pc = "ai"
  /\ \E ok \in BOOLEAN :
       call' = IF ok THEN [call EXCEPT !.pc = "ad", !.ai = TRUE]
               ELSE [call EXCEPT !.pc = "idle"]
  /\ UNCHANGED <<db>>
  /\ UNCHANGED ftsRest

\* CREATE TRIGGER IF NOT EXISTS chunks_ad (833-840).
EnsureTriggerAd ==
  /\ call.pc = "ad"
  /\ \E ok \in BOOLEAN :
       call' = IF ok THEN [call EXCEPT !.pc = "au", !.ad = TRUE]
               ELSE [call EXCEPT !.pc = "idle"]
  /\ UNCHANGED <<db>>
  /\ UNCHANGED ftsRest

\* CREATE TRIGGER IF NOT EXISTS chunks_au (842-850).
EnsureTriggerAu ==
  /\ call.pc = "au"
  /\ \E ok \in BOOLEAN :
       call' = IF ok THEN [call EXCEPT !.pc = "rebuild", !.au = TRUE]
               ELSE [call EXCEPT !.pc = "idle"]
  /\ UNCHANGED <<db>>
  /\ UNCHANGED ftsRest

\* The 'rebuild' command (852-860): the index is rebuilt from the content
\* table; an error is ignored.
EnsureRebuild ==
  /\ call.pc = "rebuild"
  /\ \E ok \in BOOLEAN :
       call' = IF ok THEN [call EXCEPT !.pc = "ranked", !.index = db.chunks,
                                       !.rebuilt = TRUE]
               ELSE [call EXCEPT !.pc = "ranked"]
  /\ UNCHANGED <<db>>
  /\ UNCHANGED ftsRest

\* rankForQueries found hits (291): no backfill.
RankedSome ==
  /\ call.pc = "ranked"
  /\ call' = [call EXCEPT !.pc = "idle"]
  /\ UNCHANGED <<db>>
  /\ UNCHANGED ftsRest

\* backfillFtsFromChunks (863-880) after a rank without hits: COUNT(1) on
\* the external-content table scans the content table; the chunks are
\* inserted into the index when it is 0.
Backfill ==
  /\ call.pc = "ranked"
  /\ LET cFts == Cardinality(db.chunks)
     IN call' = [call EXCEPT !.pc = "idle",
                   !.index = IF cFts = 0 THEN @ \cup db.chunks ELSE @]
  /\ UNCHANGED <<db>>
  /\ UNCHANGED ftsRest

NextFts ==
  \/ ChunkInsert
  \/ ChunkUpdate
  \/ ChunkDelete
  \/ EnsureTable
  \/ EnsureTriggerAi
  \/ EnsureTriggerAd
  \/ EnsureTriggerAu
  \/ EnsureRebuild
  \/ RankedSome
  \/ Backfill

SpecFts == InitFts /\ [][NextFts]_vars

(***************************************************************************)
(* deepsearch (deepsearch.ts 55-112) with tavilySearch (130-244),          *)
(* firecrawlSearch (248-310) and postFilter (397-416).  A result is the    *)
(* hostname of its canonical URL, a hostname the sequence of its labels.   *)
(***************************************************************************)
Hosts == { <<"a", "com">>, <<"sub", "a", "com">>, <<"nota", "com">>, <<"b", "org">> }

\* The domain lists a caller passes (already in the form normDomains
\* leaves them in).
DomainLists == { {}, {<<"a", "com">>}, {<<"b", "org">>} }

\* host === d || host.endsWith("." + d)
hostMatches(host, d) ==
  /\ Len(d) <= Len(host)
  /\ SubSeq(host, Len(host) - Len(d) + 1, Len(host)) = d

\* postFilter (397-416).
postFilter(items, allowed, disallowed) ==
  LET Keep(host) ==
        /\ allowed # {} => \E d \in allowed : hostMatches(host, d)
        /\ ~(disallowed # {} /\ \E d \in disallowed : hostMatches(host, d))
  IN SelectSeq(items, Keep)

\* dedupeResults (418-428).
dedupeResults(items) == uniq(items, {})

\* What tavilySearch returns for the provider's results (234-239): with
\* behavior.relax the filter gets no domain list.
tavilyItems(results, allowed, disallowed, relax) ==
  dedupeResults(postFilter(results, IF relax THEN {} ELSE allowed,
                                    IF relax THEN {} ELSE disallowed))

\* What firecrawlSearch returns for the provider's results (301-306).
firecrawlItems(results, allowed, disallowed) ==
  dedupeResults(postFilter(results, allowed, disallowed))

\* What a provider can answer: up to MaxResults hostnames with HTTP 200, or
\* an error status, for which the SDK throws.
ProviderResults ==
  {[status |-> 200, results |-> r] : r \in UNION {[1..n -> Hosts] : n \in 0..MaxResults}}
  \cup {[status |-> st, results |-> <<>>] : st \in {429, 500, 401}}

\* The catch of tavilySearch (240-243) and of firecrawlSearch (307-309): an
\* error of the SDK gives no results.
caught(answer) == IF answer.status = 200 THEN answer.results ELSE <<>>

\* The options of withRetry in the search stage (deepresearch.ts 147).
SearchRetries == 2
SearchBaseDelay == 400

SearchCall ==
  [fn |-> "search", pc |-> "loop", allowed |-> {}, disallowed |-> {},
   hasFirecrawl |-> FALSE, items |-> <<>>, via |-> "none",
   attempt |-> 0, invocations |-> 0, statuses |-> <<>>, sleeps |-> <<>>]

\* One task of the search fan-out: withRetry(() => deepsearch(q, opts), ...)
\* for any domain lists of the request.
InitSearch ==
  /\ sse = SseInit
  /\ sig = [req |-> FALSE, ac |-> FALSE, at |-> "none"]
  /\ env = DefaultEnv
  /\ db = EmptyDb
  /\ run = RunInit
  /\ ml = IdleMl
  /\ emitted = <<>>
  /\ route = "idle"
  /\ idgen = FirstFreeId
  /\ ingest = NoIngest
  /\ dec = NoDecoder
  /\ gen = NoGen
  /\ \E a \in DomainLists, d \in DomainLists, f \in BOOLEAN :
       call = [SearchCall EXCEPT !.allowed = a, !.disallowed = d, !.hasFirecrawl = f]

searchRest == <<sse, env, db, run, ml, emitted, route, idgen, ingest, dec, gen>>

\* The caller cancels while the task runs.
SearchAbort ==
  /\ ~sig.ac
  /\ call.pc \notin {"returned", "thrown"}
  /\ sig' = [req |-> TRUE, ac |-> TRUE, at |-> "search"]
  /\ UNCHANGED call
  /\ UNCHANGED searchRest

\* The head of the loop of withRetry (deepresearch.ts 1166-1169), entered at
\* the call and after each sleep (1173-1174): throw when the signal is
\* aborted, otherwise call deepsearch, which starts its primary search
\* (deepsearch.ts 55-70).
DeepsearchCall ==
  /\ call.pc \in {"loop", "sleep"}
  /\ LET c == IF call.pc = "sleep" THEN [call EXCEPT !.attempt = @ + 1] ELSE call
     IN call' = IF sig.ac THEN [c EXCEPT !.pc = "thrown"]
                ELSE [c EXCEPT !.pc = "primary", !.invocations = @ + 1]
  /\ UNCHANGED sig
  /\ UNCHANGED searchRest

\* The catch of withRetry (deepresearch.ts 1170-1175): rethrow after the
\* last retry, otherwise sleep base * 2^attempt (plus up to 50 ms).
withRetryCatch(c) ==
  IF c.attempt >= SearchRetries THEN [c EXCEPT !.pc = "thrown"]
  ELSE [c EXCEPT !.pc = "sleep",
                 !.sleeps = Append(@, SearchBaseDelay * 2 ^ c.attempt)]

\* deepsearch returns items to withRetry, which returns them (1169);
\* rejected is the case of a deepsearch that throws.
deepsearchSettles(c, rejected, items, via) ==
  IF rejected THEN withRetryCatch(c)
  ELSE [c EXCEPT !.pc = "returned", !.items = items, !.via = via]

\* What deepsearch does with the items of a search: return them, or go on
\* with the next search; after the last one it returns [] (105-106).  Its
\* own catch (107-111) returns [] too, so it never rejects.
afterSearch(c, items, via, nextPc) ==
  IF items # <<>> THEN deepsearchSettles(c, FALSE, items, via)
  ELSE IF nextPc = "returned" THEN deepsearchSettles(c, FALSE, <<>>, "tavily-empty")
  ELSE [c EXCEPT !.pc = nextPc]

\* 1) the primary Tavily search settles (67-74).
TavilyPrimaryDone ==
  /\ call.pc = "primary"
  /\ \E answer \in ProviderResults :
       call' = afterSearch([call EXCEPT !.statuses = Append(@, answer.status)],
                 tavilyItems(caught(answer), call.allowed, call.disallowed, FALSE),
                 "tavily", "broadened")
  /\ UNCHANGED sig
  /\ UNCHANGED searchRest

\* 2) the broadened Tavily search settles (77-89).
TavilyBroadenedDone ==
  /\ call.pc = "broadened"
  /\ \E answer \in ProviderResults :
       call' = afterSearch([call EXCEPT !.statuses = Append(@, answer.status)],
                 tavilyItems(caught(answer), call.allowed, call.disallowed, TRUE),
                 "tavily-broadened",
                 IF call.hasFirecrawl THEN "firecrawl" ELSE "returned")
  /\ UNCHANGED sig
  /\ UNCHANGED searchRest

\* 3) the Firecrawl fallback settles (92-106).
FirecrawlDone ==
  /\ call.pc = "firecrawl"
  /\ \E answer \in ProviderResults :
       call' = afterSearch([call EXCEPT !.statuses = Append(@, answer.status)],
                 firecrawlItems(caught(answer), call.allowed, call.disallowed),
                 "firecrawl-fallback", "returned")
  /\ UNCHANGED sig
  /\ UNCHANGED searchRest

NextSearch ==
  \/ SearchAbort
  \/ DeepsearchCall
  \/ TavilyPrimaryDone
  \/ TavilyBroadenedDone
  \/ FirecrawlDone

SpecSearch == InitSearch /\ [][NextSearch]_vars

(***************************************************************************)
(* mapLimit (deepresearch.ts 1193-1222) on its own: any list of items, the *)
(* limits of the search fan-out (136) and of the read fan-out (216-223),   *)
(* tasks that settle in any order.                                         *)
(***************************************************************************)
\* The limits of the two fan-outs: 3 for the searches, readConc for the
\* reads with READER_CONCURRENCY unset, 1 or 9.
FanOutLimits ==
  {SearchConcurrency} \cup
  {readConc([DefaultEnv EXCEPT !.READER_CONCURRENCY = v]) : v \in {Unset, 1, 9}}

\* The lists of items.
ItemLists == UNION {[1..n -> {"u1", "u2"}] : n \in 0..MaxItems}

\* What fn resolves with for an item.
taskResult(item) == [ok |-> TRUE, url |-> item]

MapLimitCall == [fn |-> "mapLimit", pc |-> "idle", items |-> <<>>, rejected |-> {}]

InitMapLimit ==
  /\ sse = SseInit
  /\ sig = [req |-> FALSE, ac |-> FALSE, at |-> "none"]
  /\ env = DefaultEnv
  /\ db = EmptyDb
  /\ run = RunInit
  /\ ml = IdleMl
  /\ emitted = <<>>
  /\ route = "idle"
  /\ idgen = FirstFreeId
  /\ ingest = NoIngest
  /\ dec = NoDecoder
  /\ gen = NoGen
  /\ call = MapLimitCall

mapLimitRest == <<sse, sig, env, db, run, emitted, route, idgen, ingest, dec, gen>>

\* mapLimit(arr, limit, fn) up to its return (1198-1220): [] for an empty
\* list, otherwise the first call of next().
MapLimitStart ==
  /\ call.pc = "idle"
  /\ \E items \in ItemLists, limit \in FanOutLimits :
       /\ call' = [call EXCEPT !.pc = "called", !.items = items]
       /\ ml' = IF Len(items) = 0
                  THEN [IdleMl EXCEPT !.stage = "mapLimit", !.limit = limit]
                  ELSE mlNext(NewMl("mapLimit", Len(items), limit), FALSE)
  /\ UNCHANGED mapLimitRest

\* A task resolves: its .then stores the result and calls next() (1212-1216).
MapLimitTaskResolves ==
  /\ call.pc = "called"
  /\ \E idx \in ml.inFlight :
       ml' = mlTaskDone(ml, idx, taskResult(call.items[idx]), FALSE)
  /\ UNCHANGED call
  /\ UNCHANGED mapLimitRest

\* A task rejects: its .catch rejects the promise of mapLimit (1217);
\* inFlight is not decremented and next() is not called.
MapLimitTaskRejects ==
  /\ call.pc = "called"
  /\ \E idx \in ml.inFlight :
       /\ ml' = Settle([ml EXCEPT !.inFlight = @ \ {idx}, !.dead = @ + 1], "rejected")
       /\ call' = [call EXCEPT !.rejected = @ \cup {idx}]
  /\ UNCHANGED mapLimitRest

NextMapLimit ==
  \/ MapLimitStart
  \/ MapLimitTaskResolves
  \/ MapLimitTaskRejects

SpecMapLimit == InitMapLimit /\ [][NextMapLimit]_vars

(***************************************************************************)
(* The plan stage and the start of the search stage (deepresearch.ts       *)
(* 108-149) with planSubqueries (647-702) and PlanResponseSchema           *)
(* (types.ts 116-134).                                                     *)
(***************************************************************************)
Depths == {"quick", "normal", "deep"}

\* maxSubqueries of the plan prompt (655).
maxSubqueries(depth) == IF depth = "deep" THEN 6 ELSE IF depth = "quick" THEN 3 ELSE 4

\* The elements of the subqueries array of a plan output: a string, an
\* object with a query, a blank string, a number.
PlanItems ==
  { [kind |-> "string", text |-> "s1"], [kind |-> "object", text |-> "s2"],
    [kind |-> "string", text |-> " "], [kind |-> "number", text |-> ""] }

\* The outputs of the plan LLM: text that is not JSON, JSON without intent,
\* and plans with any number of subqueries.
PlanOutputs ==
  {[json |-> FALSE, intent |-> FALSE, subqueries |-> <<>>],
   [json |-> TRUE, intent |-> FALSE, subqueries |-> <<[kind |-> "string", text |-> "s1"]>>]}
  \cup {[json |-> TRUE, intent |-> TRUE, subqueries |-> s] :
          s \in UNION {[1..n -> PlanItems] : n \in 0..MaxPlanItems}}

\* The naive plan (688-698 and 111-121): the question alone.
naivePlan(req) == <<req.question>>

\* planSubqueries from the text of the completion on (666-701): the
\* subqueries of the plan it returns.
planSubqueries(req, out) ==
  LET IsQuery(x) == x.kind \in {"string", "object"} /\ x.text \notin {"", " "}
      kept == SelectSeq(out.subqueries, IsQuery)
      subqueries == [k \in DOMAIN kept |-> kept[k].text]
      success == out.json /\ out.intent /\ Len(subqueries) >= 1
  IN IF ~success THEN naivePlan(req) ELSE subqueries

PlanCall ==
  [fn |-> "plan", pc |-> "idle", req |-> [question |-> "q?", depth |-> "normal"],
   parsed |-> FALSE, subqueries |-> <<>>, searched |-> <<>>]

InitPlan ==
  /\ sse = SseInit
  /\ sig = [req |-> FALSE, ac |-> FALSE, at |-> "none"]
  /\ env = DefaultEnv
  /\ db = EmptyDb
  /\ run = RunInit
  /\ ml = IdleMl
  /\ emitted = <<>>
  /\ route = "idle"
  /\ idgen = FirstFreeId
  /\ ingest = NoIngest
  /\ dec = NoDecoder
  /\ gen = NoGen
  /\ call = PlanCall

planRest == <<sse, sig, env, db, run, emitted, route, idgen, ingest, dec, gen>>

\* deepResearch calls planSubqueries(req) (109), which calls the plan LLM.
PlanStart ==
  /\ call.pc = "idle"
  /\ \E d \in Depths :
       call' = [call EXCEPT !.pc = "llm", !.req = [question |-> "q?", depth |-> d]]
  /\ UNCHANGED ml
  /\ UNCHANGED planRest

\* The plan call settles and the search fan-out starts over plan.subqueries
\* (109-149): a rejected call gives the naive plan in the catch.
PlanSettles ==
  /\ call.pc = "llm"
  /\ \E failed \in BOOLEAN, out \in PlanOutputs :
       LET subqueries == IF failed THEN naivePlan(call.req)
                         ELSE planSubqueries(call.req, out)
           m == mlNext(NewMl("search", Len(subqueries), SearchConcurrency), FALSE)
       IN /\ failed => out = [json |-> FALSE, intent |-> FALSE, subqueries |-> <<>>]
          /\ ml' = m
          /\ call' = [call EXCEPT !.pc = "search", !.subqueries = subqueries,
                        !.parsed = ~failed /\ out.json /\ out.intent
                                   /\ subqueries # naivePlan(call.req),
                        !.searched = SubSeq(subqueries, 1, m.i)]
  /\ UNCHANGED planRest

\* The searches settle in the order they were started; each one that
\* settles lets mapLimit start the next.
PlanSearchDone ==
  /\ call.pc = "search"
  /\ ml.inFlight # {}
  /\ LET idx == CHOOSE k \in ml.inFlight : \A j \in ml.inFlight : k <= j
         m == mlTaskDone(ml, idx, <<>>, FALSE)
     IN /\ ml' = m
        /\ call' = [call EXCEPT !.searched = SubSeq(call.subqueries, 1, m.i),
                      !.pc = IF m.settled = "resolved" THEN "searched" ELSE @]
  /\ UNCHANGED planRest

NextPlan ==
  \/ PlanStart
  \/ PlanSettles
  \/ PlanSearchDone

SpecPlan == InitPlan /\ [][NextPlan]_vars

(***************************************************************************)
(* withRetry and sleep (deepresearch.ts 1159-1191), called with any        *)
(* function that resolves or rejects and with the options of its two call  *)
(* sites: retries 1 and baseDelay 500 in the read fan-out (224-235),       *)
(* retries 2 and baseDelay 400 in the search fan-out (137-148).            *)
(***************************************************************************)
\* The options of the two call sites.
RetryOptions == { [retries |-> 1, baseDelay |-> 500], [retries |-> 2, baseDelay |-> 400] }

\* What fn settles with.
FnValues == {"v1", "v2"}
FnErrors == {UpstreamError, DbError}

\* Math.random() * 50 lies in [0, 50); whole milliseconds here.
Jitters == {0, 49}

RetryCall ==
  [fn |-> "withRetry", pc |-> "loop", retries |-> 0, base |-> 0, attempt |-> 0,
   calls |-> 0, outcomes |-> <<>>, delays |-> <<>>, value |-> "", thrown |-> NoError]

InitRetry ==
  /\ sse = SseInit
  /\ sig = [req |-> FALSE, ac |-> FALSE, at |-> "none"]
  /\ env = DefaultEnv
  /\ db = EmptyDb
  /\ run = RunInit
  /\ ml = IdleMl
  /\ emitted = <<>>
  /\ route = "idle"
  /\ idgen = FirstFreeId
  /\ ingest = NoIngest
  /\ dec = NoDecoder
  /\ gen = NoGen
  /\ \E o \in RetryOptions :
       \* const retries = Math.max(0, opts.retries ?? 0);
       \* const base = Math.max(10, opts.baseDelay ?? 200);
       call = [RetryCall EXCEPT !.retries = Max(0, o.retries),
                                !.base = Max(10, o.baseDelay)]

retryRest == <<sse, env, db, run, ml, emitted, route, idgen, ingest, dec, gen>>

\* A head of the loop that calls fn whatever the signal says.
withRetryLoopNoSignal(c, aborted) ==
  [c EXCEPT !.pc = "fn", !.calls = @ + 1]

\* The head of the loop (1166-1169): throw the reason when the signal is
\* aborted, otherwise call fn.
withRetryLoop(c, aborted) ==
  IF aborted THEN [c EXCEPT !.pc = "thrown", !.thrown = AbortReason]
  ELSE [c EXCEPT !.pc = "fn", !.calls = @ + 1]

\* sleep(ms, signal) up to its return (1179-1190): with the signal already
\* aborted onAbort runs at once and the promise is rejected, so the await
\* of line 1173 throws out of withRetry.
sleep(c, ms, aborted) ==
  IF aborted THEN [c EXCEPT !.pc = "thrown", !.thrown = AbortReason]
  ELSE [c EXCEPT !.pc = "sleep", !.delays = Append(@, ms)]

\* The catch of withRetry (1170-1175).
withRetryCatchOf(c, e, jitter, aborted) ==
  IF c.attempt >= c.retries THEN [c EXCEPT !.pc = "thrown", !.thrown = e]
  ELSE sleep(c, c.base * 2 ^ c.attempt + jitter, aborted)

RetryLoop ==
  /\ call.pc = "loop"
  /\ call' = withRetryLoop(call, sig.ac)
  /\ UNCHANGED sig
  /\ UNCHANGED retryRest

\* fn resolves: return await fn() (1169).
RetryFnResolves ==
  /\ call.pc = "fn"
  /\ \E v \in FnValues :
       call' = [call EXCEPT !.pc = "returned", !.value = v,
                            !.outcomes = Append(@, [ok |-> TRUE, value |-> v])]
  /\ UNCHANGED sig
  /\ UNCHANGED retryRest

\* fn rejects: the catch (1170-1173).
RetryFnRejects ==
  /\ call.pc = "fn"
  /\ \E e \in FnErrors, j \in Jitters :
       call' = withRetryCatchOf(
                 [call EXCEPT !.outcomes = Append(@, [ok |-> FALSE, error |-> e])],
                 e, j, sig.ac)
  /\ UNCHANGED sig
  /\ UNCHANGED retryRest

\* The timer of sleep fires (1181): attempt++ (1174) and back to the head
\* of the loop.
RetrySleepResolves ==
  /\ call.pc = "sleep"
  /\ call' = [call EXCEPT !.pc = "loop", !.attempt = @ + 1]
  /\ UNCHANGED sig
  /\ UNCHANGED retryRest

\* The caller aborts the signal; the listener of a pending sleep
\* (1183-1188) clears the timer and rejects.
RetryAbort ==
  /\ ~sig.ac
  /\ call.pc \notin {"returned", "thrown"}
  /\ sig' = [req |-> TRUE, ac |-> TRUE, at |-> "retry"]
  /\ call' = IF call.pc = "sleep"
               THEN [call EXCEPT !.pc = "thrown", !.thrown = AbortReason]
               ELSE call
  /\ UNCHANGED retryRest

NextRetry ==
  \/ RetryLoop
  \/ RetryFnResolves
  \/ RetryFnRejects
  \/ RetrySleepResolves
  \/ RetryAbort

SpecRetry == InitRetry /\ [][NextRetry]_vars

(***************************************************************************)
(* readUrl (unnamed/part_004 37-72) with fetchViaFirecrawl (85-199),       *)
(* fetchRawHtml (203-265) and isBinaryContent (367-375), called for one    *)
(* URL by the read stage of the orchestrator (deepresearch.ts 222-236,     *)
(* ingestUrl 716-810) or by the queue worker (route.ts 477-614), which     *)
(* the ingest job runs again for a row it finds queued.                    *)
(***************************************************************************)
\* A content-type header, lower-cased (368): its text, its length, the
\* prefix up to the slash and those of the needles of isBinaryContent it contains.
HtmlType ==
  [text |-> "text/html; charset=utf-8", len |-> 24, prefix |-> "text/", has |-> {}]
PdfType ==
  [text |-> "application/pdf", len |-> 15, prefix |-> "application/", has |-> {"pdf"}]
ImageType == [text |-> "image/png", len |-> 9, prefix |-> "image/", has |-> {}]
VideoType == [text |-> "video/mp4", len |-> 9, prefix |-> "video/", has |-> {}]
AudioType == [text |-> "audio/mpeg", len |-> 10, prefix |-> "audio/", has |-> {}]
OctetType ==
  [text |-> "application/octet-stream", len |-> 24, prefix |-> "application/",
   has |-> {"octet-stream"}]
\* res.headers.get("content-type") ?? null
NoContentType == [text |-> "", len |-> 0, prefix |-> "", has |-> {}]
ContentTypes ==
  {HtmlType, PdfType, ImageType, VideoType, AudioType, OctetType, NoContentType}

\* isBinaryContent (367-375).
isBinaryContent(ct) ==
  \/ "pdf" \in ct.has
  \/ ct.prefix = "image/"
  \/ ct.prefix = "video/"
  \/ ct.prefix = "audio/"
  \/ "octet-stream" \in ct.has

\* What client.scrape settles with (124-132).
FirecrawlOutcomes == {"ok", "error", "rate limit"}

\* "Unsupported content-type: " and the header; "Fetch HTTP 404".
UnsupportedError(ct) == [len |-> 26 + ct.len, cut |-> FALSE]
FetchHttpError == [len |-> 14, cut |-> FALSE]

ReadCall ==
  [fn |-> "readUrl", pc |-> "idle", path |-> "queue", prefer |-> "jina",
   paused |-> FALSE, reads |-> 0, binaryAt |-> 0, returned |-> ""]

\* The orchestrator passes chooseReaderPrefer(u), the queue worker no
\* preference (45: "jina").
InitRead ==
  /\ sse = SseInit
  /\ sig = [req |-> FALSE, ac |-> FALSE, at |-> "none"]
  /\ env = DefaultEnv
  /\ run = RunInit
  /\ ml = IdleMl
  /\ emitted = <<>>
  /\ route = "idle"
  /\ idgen = FirstFreeId
  /\ ingest = NoIngest
  /\ dec = NoDecoder
  /\ gen = NoGen
  /\ \/ /\ db = EmptyDb
        /\ \E prefer \in {"jina", "raw"} :
             call = [ReadCall EXCEPT !.path = "orchestrator", !.prefer = prefer]
     \/ /\ \E row \in {QueueRow("u1"), FailedTwice("u1")} :
             db = [EmptyDb EXCEPT !.ingestQueue = <<row>>]
        /\ call = ReadCall

readRest == <<sse, sig, env, run, ml, emitted, route, ingest, dec, gen>>

\* readUrl up to its first await (44-61): Firecrawl first when it is
\* preferred and not paused, otherwise the raw fetch.
readUrl(c) ==
  [c EXCEPT !.reads = @ + 1,
            !.pc = IF c.prefer = "jina" /\ ~c.paused THEN "firecrawl" ELSE "raw"]

\* The read succeeded: the source row is inserted (ingestUrl 745-758,
\* processQueueItem 506-524) and the call returns, the queue row done.
readOk(c, d, id) ==
  [call |-> [c EXCEPT !.pc = IF c.path = "queue" THEN "idle" ELSE "returned",
                      !.returned = "ok"],
   db |-> LET withSource == insertSource(d, [id |-> id, url |-> "u1"])
          IN IF c.path = "queue" THEN setStatus(withSource, 1, "done") ELSE withSource]

\* readUrl threw e (67-71).  ingestUrl catches it and returns ok: false
\* (806-808), which withRetry returns to the read stage as a result;
\* processQueueItem counts the attempt and requeues the row or marks it
\* error (578-613).
readThrew(c, d, e) ==
  [call |-> [c EXCEPT !.pc = IF c.path = "queue" THEN "idle" ELSE "returned",
                      !.returned = IF c.path = "queue"
                                     THEN IF d.ingestQueue[1].attempts + 1 < maxAttempts
                                            THEN "requeued" ELSE "error"
                                     ELSE "ok: false"],
   db |-> IF c.path = "queue"
            THEN catchWrite(d, 1, d.ingestQueue[1].attempts + 1, e)
            ELSE d]

\* The read stage calls withRetry(() => ingestUrl(u, ...)) for a URL that
\* has no source row (deepresearch.ts 222-236, 721-736).
ReadIngestUrl ==
  /\ call.path = "orchestrator"
  /\ call.pc = "idle"
  /\ call' = readUrl(call)
  /\ UNCHANGED <<db, idgen>>
  /\ UNCHANGED readRest

\* A run of the ingest job claims the queued row (route.ts 425-459) and
\* processQueueItem, finding no source of the URL, calls readUrl (477-497).
ReadJobClaims ==
  /\ call.path = "queue"
  /\ call.pc = "idle"
  /\ db.ingestQueue[1].status = "queued"
  /\ db' = setStatus(db, 1, "processing")
  /\ call' = readUrl(call)
  /\ UNCHANGED idgen
  /\ UNCHANGED readRest

\* fetchViaFirecrawl settles (50-58, 122-132): its result is returned, an
\* error falls back to the raw fetch, a rate limit also pauses Firecrawl.
ReadFirecrawlSettles ==
  /\ call.pc = "firecrawl"
  /\ \E o \in FirecrawlOutcomes :
       IF o = "ok"
         THEN /\ call' = readOk(call, db, idgen).call
              /\ db' = readOk(call, db, idgen).db
              /\ idgen' = idgen + 1
         ELSE /\ call' = [call EXCEPT !.pc = "raw", !.paused = @ \/ o = "rate limit"]
              /\ UNCHANGED <<db, idgen>>
  /\ UNCHANGED readRest

\* fetchRawHtml settles (213-261): a status that is not ok and a binary
\* content type throw, anything else is read as text.
ReadRawSettles ==
  /\ call.pc = "raw"
  /\ \/ /\ call' = readThrew(call, db, FetchHttpError).call
        /\ db' = readThrew(call, db, FetchHttpError).db
        /\ idgen' = idgen
     \/ \E ct \in ContentTypes :
          IF isBinaryContent(ct)
            THEN LET c == [call EXCEPT !.binaryAt = IF @ = 0 THEN call.reads ELSE @]
                 IN /\ call' = readThrew(c, db, UnsupportedError(ct)).call
                    /\ db' = readThrew(c, db, UnsupportedError(ct)).db
                    /\ idgen' = idgen
            ELSE /\ call' = readOk(call, db, idgen).call
                 /\ db' = readOk(call, db, idgen).db
                 /\ idgen' = idgen + 1
  /\ UNCHANGED readRest

\* Date.now() passes FIRECRAWL_PAUSED_UNTIL (48, 129).
ReadPauseExpires ==
  /\ call.paused
  /\ call.pc = "idle"
  /\ call' = [call EXCEPT !.paused = FALSE]
  /\ UNCHANGED <<db, idgen>>
  /\ UNCHANGED readRest

NextRead ==
  \/ ReadIngestUrl
  \/ ReadJobClaims
  \/ ReadFirecrawlSettles
  \/ ReadRawSettles
  \/ ReadPauseExpires

SpecRead == InitRead /\ [][NextRead]_vars

(***************************************************************************)
(* The shrink and trim of the context chunks before the answer prompt      *)
(* (deepresearch.ts 406-426) and before the retry (486-491), with          *)
(* shrinkChunkText (1093-1099) and trimChunksToBudget (1068-1089).  A      *)
(* chunk is its id and the length of its text.                             *)
(***************************************************************************)
\* The lengths of the texts of the context chunks.
CtxLens == {0, 400, 900, 901, 4000}

CtxLists ==
  UNION {{[k \in 1..n |-> [id |-> k, len |-> lens[k]]] : lens \in [1..n -> CtxLens]}
           : n \in 0..MaxCtx}

\* Math.max(400, Number(process.env.ANSWER_MAX_CHARS_PER_CHUNK ?? 900)) with
\* the variable unset, 100 or 4000.
MaxCharsChoices == {MAX_CHARS_PER_CHUNK, Max(400, 100), Max(400, 4000)}

\* The budget and the reserve of the calls of trimChunksToBudget: the
\* first prompt (422-426) and the retry (486-491).
TrimArgs ==
  {[budget |-> INPUT_BUDGET_TOKENS(e), reserve |-> PROMPT_OVERHEAD_TOKENS] : e \in EnvChoices}
  \cup {[budget |-> smallerBudget(e), reserve |-> PROMPT_OVERHEAD_TOKENS] : e \in EnvChoices}

BudgetCall ==
  [fn |-> "budget", pc |-> "ranked", chunks |-> <<>>, maxChars |-> 0,
   shrunk |-> <<>>, budget |-> 0, reserve |-> 0, out |-> <<>>]

InitBudget ==
  /\ sse = SseInit
  /\ sig = [req |-> FALSE, ac |-> FALSE, at |-> "none"]
  /\ env = DefaultEnv
  /\ db = EmptyDb
  /\ run = RunInit
  /\ ml = IdleMl
  /\ emitted = <<>>
  /\ route = "idle"
  /\ idgen = FirstFreeId
  /\ ingest = NoIngest
  /\ dec = NoDecoder
  /\ gen = NoGen
  /\ \E chunks \in CtxLists, maxChars \in MaxCharsChoices :
       call = [BudgetCall EXCEPT !.chunks = chunks, !.maxChars = maxChars]

budgetRest == <<sse, sig, env, db, run, ml, emitted, route, idgen, ingest, dec, gen>>

\* const shrunkChunks = contextChunks.map(... shrinkChunkText ...) (417-420).
ShrinkChunks ==
  /\ call.pc = "ranked"
  /\ call' = [call EXCEPT !.pc = "shrunk", !.shrunk = shrink(call.chunks, call.maxChars)]
  /\ UNCHANGED budgetRest

\* trimChunksToBudget(shrunkChunks, budget, PROMPT_OVERHEAD_TOKENS), for the
\* first prompt or the retry.
TrimChunks ==
  /\ call.pc \in {"shrunk", "trimmed"}
  /\ \E a \in TrimArgs :
       call' = [call EXCEPT !.pc = "trimmed", !.budget = a.budget,
                            !.reserve = a.reserve,
                            !.out = trimChunksToBudget(call.shrunk, a.budget, a.reserve)]
  /\ UNCHANGED budgetRest

NextBudget ==
  \/ ShrinkChunks
  \/ TrimChunks

SpecBudget == InitBudget /\ [][NextBudget]_vars

(***************************************************************************)
(* createSSEDecoder (sse.ts 245-332) fed by the read loop of the client    *)
(* (client/api.ts 150-171) with any text of a few lines, whose line        *)
(* endings are LF, CR LF or CR, cut into chunks anywhere.                  *)
(***************************************************************************)
DataLine == <<"d", "a", "t", "a", ":", "1">>
EventLine == <<"e", "v", "e", "n", "t", ":", "d">>
LineEndings == { <<NL>>, <<CR, NL>>, <<CR>> }

\* A line with its ending, a bare ending (a blank line), or a line the
\* stream ends in.
Segments ==
  {l \o e : l \in {DataLine, EventLine, <<>>}, e \in LineEndings}
  \cup {DataLine, EventLine}

DecodeTexts == UNION {{flat(segs) : segs \in [1..n -> Segments]} : n \in 1..MaxSegs}

DecodeCall ==
  [fn |-> "decode", text |-> <<>>, wire |-> <<>>, flushed |-> FALSE,
   residual |-> <<>>, had |-> <<>>]

InitDecode ==
  /\ sse = SseInit
  /\ sig = [req |-> FALSE, ac |-> FALSE, at |-> "none"]
  /\ env = DefaultEnv
  /\ db = EmptyDb
  /\ run = RunInit
  /\ ml = IdleMl
  /\ emitted = <<>>
  /\ route = "idle"
  /\ idgen = FirstFreeId
  /\ ingest = NoIngest
  /\ dec = NoDecoder
  /\ gen = NoGen
  /\ \E text \in DecodeTexts : call = [DecodeCall EXCEPT !.text = text, !.wire = text]

decodeRest == <<sse, sig, env, db, run, ml, emitted, route, idgen, ingest, gen>>

\* reader.read() yields the next characters of the stream, cut anywhere,
\* and the loop pushes them (api.ts 151-163).
DecodePush ==
  /\ \E n \in 1..Len(call.wire) :
       /\ dec' = push(dec, SubSeq(call.wire, 1, n))
       /\ call' = [call EXCEPT !.wire = SubSeq(@, n + 1, Len(@))]
  /\ UNCHANGED decodeRest

\* reader.read() yields done: the loop ends and the decoder is flushed
\* (api.ts 152-153, 166).
DecodeFlush ==
  /\ call.wire = <<>>
  /\ ~call.flushed
  /\ dec' = flush(dec)
  /\ call' = [call EXCEPT !.flushed = TRUE, !.residual = dec.buffer,
                          !.had = dec.events]
  /\ UNCHANGED decodeRest

NextDecode ==
  \/ DecodePush
  \/ DecodeFlush

SpecDecode == InitDecode /\ [][NextDecode]_vars

(***************************************************************************)
(* The numbered source list of the answer prompt: minimalSourceRefs        *)
(* (deepresearch.ts 411-415) given to buildAnswerPrompt (429-434), whose   *)
(* formatSourcesList (unnamed/part_006 57-66) labels the entries.          *)
(***************************************************************************)
\* usedSourceRefs.filter((s) => ctxSourceIds.has(s.id))
minimalSourceRefs(used, ctx) ==
  LET InContext(s) == \E k \in DOMAIN ctx : ctx[k].sourceId = s.id
  IN SelectSeq(used, InContext)

\* The label of an entry is (s.index ?? i) + 1; every ref given to the
\* prompt carries an index.
formatSourcesList(sources) ==
  [i \in DOMAIN sources |->
     [n |-> sources[i].index + 1, id |-> sources[i].id, url |-> sources[i].url]]

(***************************************************************************)
(* The ingest queue when the job is invoked again and again (route.ts      *)
(* 320-393) and no other caller ingests or enqueues: every invocation      *)
(* gets through its steps, every read settles, and the callers collect     *)
(* their results.                                                          *)
(***************************************************************************)
\* The queue the repeated job starts from: a fresh row and one that failed
\* twice, or two fresh rows of the same page.
LiveQueueChoices ==
  { <<QueueRow("u1"), FailedTwice("u2")>>, <<QueueRow("u1"), QueueRow("u1")>> }

InitQueueLive ==
  /\ sse = SseInit
  /\ sig = [req |-> FALSE, ac |-> FALSE, at |-> "none"]
  /\ env = DefaultEnv
  /\ \E q \in LiveQueueChoices : db = [EmptyDb EXCEPT !.ingestQueue = q]
  /\ run = RunInit
  /\ ml = IdleMl
  /\ emitted = <<>>
  /\ route = "idle"
  /\ idgen = FirstFreeId
  /\ ingest = [NoIngest EXCEPT !.foreignKeys = TRUE]
  /\ dec = NoDecoder
  /\ gen = NoGen
  /\ call = NoCall

\* GET or POST /api/jobs/ingest once more: handle starts with
\* reviveStaleProcessing, whose first statement selects the stale ids
\* (342-344, 399-411).
JobAgain ==
  /\ ingest.job.pc = "idle"
  /\ LET stale == {r \in DOMAIN db.ingestQueue :
                     db.ingestQueue[r].status = "processing" /\ db.ingestQueue[r].stale}
     IN ingest' = [ingest EXCEPT !.job = [pc |-> IF stale = {} THEN "j_claim"
                                                 ELSE "j_reviveUpdate",
                                          ids |-> stale]]
  /\ UNCHANGED <<db, idgen>>
  /\ UNCHANGED rest

\* A row in processing gets older than reviveStaleSec, which handle keeps
\* at 60 seconds or more (298): that much time passes only while a readUrl
\* is in flight, of this row or of a row of the batch started before it;
\* the other awaits between two writes of a row are single statements on
\* the database.  Rows are followed while they go stale up to
\* MaxStaleAttempts attempts, which keeps the attempts counted finite.
StaleDuringRead ==
  /\ \E i \in Procs : At(i, {"queue"}, "q_read")
  /\ \E r \in DOMAIN db.ingestQueue :
       /\ db.ingestQueue[r].status = "processing"
       /\ ~db.ingestQueue[r].stale
       /\ db.ingestQueue[r].attempts < MaxStaleAttempts
       /\ db' = [db EXCEPT !.ingestQueue[r].stale = TRUE]
  /\ UNCHANGED <<ingest, idgen>>
  /\ UNCHANGED rest

\* The steps of processQueueItem (477-614).
WorkerStep ==
  \/ QueueSelect
  \/ QueueMarkDone
  \/ QueueRead
  \/ QueueInsertSource
  \/ QueueSelectAfter
  \/ QueueInsertContent
  \/ QueueDone
  \/ QueueCatchSelect
  \/ QueueCatchWrite

NextQueueLive ==
  \/ JobAgain
  \/ StaleDuringRead
  \/ ReviveUpdate
  \/ ClaimBatch
  \/ WorkerStep
  \/ Return

\* A step of the processQueueItem that is the i-th active call.
WorkerStepOf(i) ==
  /\ WorkerStep
  /\ i \in Procs
  /\ Len(ingest'.procs) = Len(ingest.procs)
  /\ ingest'.procs[i] # ingest.procs[i]

\* The job is invoked repeatedly and runs to its end; every started
\* processQueueItem takes its next step; a finished call returns.
QueueFairness ==
  /\ WF_vars(JobAgain)
  /\ WF_vars(ReviveUpdate)
  /\ WF_vars(ClaimBatch)
  /\ \A i \in 1..MaxActive : WF_vars(WorkerStepOf(i))
  /\ WF_vars(Return)

SpecQueueLive == InitQueueLive /\ [][NextQueueLive]_vars /\ QueueFairness

(***************************************************************************)
(* Properties.                                                             *)
(***************************************************************************)

\* The application events written to the response stream, in order.
IsEventChunk(c) == c.kind = "event"
delivered == SelectSeq(sse.out, IsEventChunk)

EventNames(es) == [k \in DOMAIN es |-> es[k].event]
CountOf(es, names) == Cardinality({k \in DOMAIN es : es[k].event \in names})
Terminal == {"done", "error"}

\* The client disconnected before run() finished.
cancelledBeforeFinish == sig.req /\ sig.at # "finished"

\* The messages the run's thread holds.
threadMessages ==
  LET OfThread(m) == m.threadId = run.threadId
  IN SelectSeq(db.messages, OfThread)

\* The order of the stages.
StageRank(stage) ==
  CASE stage = "plan" -> 1 [] stage = "search" -> 2 [] stage = "read" -> 3
    [] stage = "rank" -> 4 [] stage = "answer" -> 5 [] stage = "verify" -> 6

\* The payloads of the `token` events of es, concatenated.
RECURSIVE TokenConcat(_)
TokenConcat(es) ==
  IF es = <<>> THEN <<>>
  ELSE (IF Head(es).event = "token" THEN Head(es).data ELSE <<>>) \o TokenConcat(Tail(es))

\* The progress event that announces the retry of the answer.
IsRetryProgress(e) ==
  /\ e.event = "progress"
  /\ e.data = [stage |-> "answer",
               message |-> "Context too large; retrying with smaller context"]

\* The verify stage has been announced.
verifyReached ==
  \E k \in DOMAIN emitted :
    emitted[k].event = "progress" /\ emitted[k].data.stage = "verify"

abortClassified == {AbortReason, LlmAbortError, ConnAbortedError}

C2_CompletedRunEndsWithClaimsDone ==
  (route = "finished" /\ ~sig.req /\ ~run.extFail /\ Len(run.deduped) >= 1) =>
     /\ Len(delivered) >= 2
     /\ delivered[Len(delivered) - 1].event = "claims"
     /\ delivered[Len(delivered)].event = "done"
     /\ CountOf(delivered, {"error"}) = 0

\* C3: `sources` is emitted at most once in a run, and before the first
\* `token`, also when the answer is retried after a TPM error; the same holds
\* of the events written to the stream.
C3_SourcesOnceBeforeTokens ==
  /\ CountOf(emitted, {"sources"}) <= 1
  /\ \A k \in DOMAIN emitted :
       emitted[k].event = "token" => \E j \in 1..(k - 1) : emitted[j].event = "sources"
  /\ CountOf(delivered, {"sources"}) <= 1
  /\ \A k \in DOMAIN delivered :
       delivered[k].event = "token" => \E j \in 1..(k - 1) : delivered[j].event = "sources"

\* Tokens were streamed by the first attempt and again by the TPM retry.
C3_Witness ==
  /\ run.attempt = 2
  /\ CountOf(emitted, {"sources"}) = 1
  /\ \E i, j, k \in DOMAIN emitted :
       /\ i < j /\ j < k
       /\ emitted[i].event = "token" /\ IsRetryProgress(emitted[j])
       /\ emitted[k].event = "token"
  /\ CountOf(delivered, {"token"}) = 2

\* C4 (as stated): the progress events written to the stream never move
\* backwards in the stage order plan, search, read, rank, answer, verify.
C4_ProgressStagesNeverRegress ==
  \A i, j \in DOMAIN delivered :
    (i < j /\ delivered[i].event = "progress" /\ delivered[j].event = "progress") =>
       StageRank(delivered[i].data.stage) <= StageRank(delivered[j].data.stage)

\* C5 (as stated): the assistant message an answering run persists, and the
\* text of its `answer` event, equal the concatenation of the payloads of all
\* `token` events emitted before.
C5_MessageEqualsTokenConcat ==
  /\ \A k \in DOMAIN threadMessages :
       (run.attempt >= 1 /\ threadMessages[k].role = "assistant") =>
          threadMessages[k].contentMd = TokenConcat(emitted)
  /\ \A k \in DOMAIN emitted :
       emitted[k].event = "answer" =>
          emitted[k].data.text = TokenConcat(SubSeq(emitted, 1, k))

\* A reason to skip verification holds: no ranked context, a TPM retry of the
\* answer with SKIP_VERIFY_ON_TPM on, an estimate above the ceiling, or a TPM
\* error of the verify call.
verifySkipReason ==
  \/ run.contextChunks = <<>> \/ run.usedSourceRefs = <<>>
  \/ run.attempt = 2 /\ env.SKIP_VERIFY_ON_TPM # "0"
  \/ estimateTokens(run.answerMarkdown) + sumTokens(run.verifySnippets)
       + VERIFY_OVERHEAD_TOKENS(env) > VerifyHardCap
  \/ run.skipWhy = "verify-tpm"

\* C6: when the verify stage is reached and verification is skipped, the run
\* inserts no claims and no claim_evidence row, never starts to bind or
\* persist claims, and every `claims` event it emits carries an empty list.
C6_SkippedVerifyWritesNoClaims ==
  (verifyReached /\ verifySkipReason) =>
     /\ db.claims = {} /\ db.claimEvidence = {}
     /\ run.pc \notin {"bind", "persistClaims"}
     /\ run.persisted = 0
     /\ \A k \in DOMAIN emitted :
          emitted[k].event = "claims" => emitted[k].data.claims = <<>>

\* The verify call failed with a TPM error and the empty `claims` event was
\* emitted.
C6_Witness ==
  /\ verifyReached /\ run.skipWhy = "verify-tpm"
  /\ CountOf(emitted, {"claims"}) = 1
  /\ db.claims = {}

\* C7: once the request is aborted while the run is in the read stage, the
\* run persists neither message, inserts no claims row and never reaches the
\* persist or verify steps; and after a cancellation nothing more is written
\* to the stream.
C7_AbortDuringReadPersistsNothing ==
  [][ /\ (sig'.req /\ sig'.at = "read") =>
           /\ \A k \in DOMAIN db'.messages : db'.messages[k].threadId # run'.threadId
           /\ db'.claims = {} /\ db'.claimEvidence = {}
           /\ run'.pc \notin {"persistMsg", "verifyCall", "bind", "persistClaims",
                              "returned"}
      /\ sig.req => sse'.out = sse.out
    ]_vars

\* The abort came during the read stage, the reads in flight finished, the
\* run went on to the answer call, which rejected with the abort error, and
\* run() ended silently.
C7_Witness ==
  /\ sig.req /\ sig.at = "read"
  /\ run.answerErrs = <<LlmAbortError>>
  /\ run.pc = "thrown" /\ run.err = LlmAbortError
  /\ route = "finished"
  /\ db.messages = <<>>
  /\ Len(emitted) > Len(delivered)

\* C8: once the writer is closed nothing more is enqueued, send / comment /
\* ping (and the heartbeat) return false, closed stays set, the heartbeat
\* timer is cleared, and onClose has been invoked exactly once, however
\* often and by whichever path close is reached.
C8_ClosedWriterWritesNothing ==
  [][ /\ sse.closed =>
           /\ sse'.out = sse.out
           /\ sse'.closed
           /\ sse'.onCloseCalls = sse.onCloseCalls
           /\ (sse' # sse /\ sse'.call \in {"send", "comment", "ping"}) => sse'.ret = FALSE
      /\ sse'.closed =>
           /\ ~sse'.heartbeatTimer
           /\ ~sse'.controller
           /\ sse'.onCloseCalls = 1
    ]_vars

\* A second close (here by the consumer's cancel or the abort signal after a
\* close) on a writer that had written chunks.
C8_Witness ==
  /\ sse.closed
  /\ sse.call \in {"send", "comment", "ping"}
  /\ sse.ret = FALSE
  /\ sig.req
  /\ Len(sse.out) >= 2
  /\ sse.onCloseCalls = 1

\* The parts of C9 that do not depend on the retry budget: at most two
\* attempts; the retry follows a TPM error of the first attempt and is
\* announced once by the progress event; a first failure that is not a TPM
\* error, and any failure of the retry, propagate, with no message persisted.
retryDiscipline ==
  LET errs == run.answerErrs
      tpm == {TpmError, TooLargeError}
  IN /\ run.attempt \in 0..2
     /\ Len(errs) <= 2
     /\ Cardinality({k \in DOMAIN emitted : IsRetryProgress(emitted[k])})
          = (IF run.attempt = 2 THEN 1 ELSE 0)
     /\ run.attempt = 2 <=> (Len(errs) >= 1 /\ errs[1] \in tpm)
     /\ (Len(errs) >= 1 /\ errs[1] \notin tpm) =>
          /\ Len(errs) = 1
          /\ run.pc = "thrown" /\ run.err = errs[1]
          /\ threadMessages = <<>>
     /\ Len(errs) = 2 =>
          /\ run.pc = "thrown" /\ run.err = errs[2]
          /\ threadMessages = <<>>

C10_EmptySearchRun ==
  (run.pc = "returned" /\ run.deduped = <<>> /\ run.attempt = 0) =>
     /\ EventNames(emitted) =
          <<"progress", "progress", "progress", "sources", "claims", "done">>
     /\ emitted[1].data.stage = "plan"
     /\ emitted[2].data.stage = "search"
     /\ emitted[3].data = [stage |-> "search", message |-> "Found 0 unique URLs"]
     /\ emitted[4].data = <<>>
     /\ emitted[5].data.claims = <<>>
     /\ emitted[6].data.threadId = run.threadId
     /\ ~sig.req => delivered = [k \in DOMAIN emitted |->
                       [kind |-> "event", event |-> emitted[k].event,
                        data |-> emitted[k].data]]
     /\ db.threads = {run.threadId}
     /\ Len(db.messages) = 2
     /\ threadMessages = db.messages
     /\ db.messages[1].role = "user" /\ db.messages[1].contentMd = Question
     /\ db.messages[2].role = "assistant"
     /\ Head(db.messages[2].contentMd) = "I could not find suitable sources"
     /\ db.claims = {} /\ db.claimEvidence = {}

\* The empty-search run returned and the route closed the stream.
C10_Witness ==
  /\ run.pc = "returned" /\ run.deduped = <<>>
  /\ route = "finished" /\ ~sig.req
  /\ Len(delivered) = 6 /\ Len(db.messages) = 2

\* C11: the sources table never holds two rows with one url, whichever of
\* ingestUrl, ingestNow and processQueueItem ran and however their steps
\* interleaved; after an ingest reported success the url has its row; and
\* an ingest that starts when the url already has a row reports that row
\* and does not read the page.
C11_OneSourcePerUrl ==
  /\ \A x, y \in db.sources : x.url = y.url => x = y
  /\ \A i \in Procs :
       LET p == ingest.procs[i]
       IN p.path # "job" =>
            /\ (p.pc = "finished" /\ p.status \in {"ok", "exists"})
                 => Cardinality({x \in db.sources : x.url = p.url}) = 1
            /\ (p.second /\ p.pc \notin {"d_select", "q_select"})
                 => /\ p.sawExisting
                    /\ ~p.didRead
                    /\ p.sourceId = sourceIdByUrl(db, p.url)
                    /\ p.pc = "finished" => p.status \in {"ok", "exists"}

\* Two calls read the same page concurrently and both wrote their chunks,
\* and a later call for the url found the row.
C11_Witness ==
  \E k \in Procs :
    /\ ingest.procs[k].second
    /\ ingest.procs[k].pc = "finished"
    /\ ingest.procs[k].path \in Direct
    /\ \E c1, c2 \in db.chunks :
         /\ c1 # c2
         /\ \/ c1.sourceId = c2.sourceId
            \/ \A x \in db.sources : x.id # c2.sourceId

\* C12: every step that changes the status of an ingest_queue row takes it
\* from queued to processing, or from processing to done, queued or error;
\* a row in done or error keeps its status.
C12_QueueStatusTransitions ==
  [][\A r \in DOMAIN db.ingestQueue :
       LET old == db.ingestQueue[r].status
           new == db'.ingestQueue[r].status
       IN old # new =>
            <<old, new>> \in {<<"queued", "processing">>, <<"processing", "done">>,
                              <<"processing", "queued">>, <<"processing", "error">>}]_vars

\* C13: the attempts of an ingest_queue row never exceed 3.
C13_AttemptsAtMostThree ==
  \A r \in DOMAIN db.ingestQueue : db.ingestQueue[r].attempts <= maxAttempts

\* C14: when the stream has ended and the reader has pushed every byte and
\* flushed the decoder, the decoded (event, data) pairs are exactly the
\* pairs that were sent, in order.
C14_DecoderYieldsSentEvents ==
  (call.fn = "codec" /\ call.flushed) => dec.events = call.sent

C16_TimestampAtMostClock ==
  \A i \in DOMAIN gen.ids :
    /\ isUlid(gen.ids[i].id)
    /\ ulidTimestamp(gen.ids[i].id) <= gen.ids[i].clock

\* C17: the text of every chunk row equals the stored text of the source
\* from charStart to charEnd.
C17_ChunkTextIsSlice ==
  (call.fn = "split" /\ call.stored) =>
    \A k \in DOMAIN call.chunks :
      call.chunks[k].text =
        sliceR(call.text, call.chunks[k].charStart, call.chunks[k].charEnd)

\* C18: every chunk row has 0 <= charStart < charEnd <= the length of the
\* stored text.
C18_ChunkOffsetsInRange ==
  (call.fn = "split" /\ call.stored) =>
    \A k \in DOMAIN call.chunks :
      /\ 0 <= call.chunks[k].charStart
      /\ call.chunks[k].charStart < call.chunks[k].charEnd
      /\ call.chunks[k].charEnd <= lenR(call.text)

\* A text under the declared normalizations: case, curly quotes and dashes
\* by normChar, and every run of whitespace as one space.
normalized(s) == normNeedleOf(s, FALSE)

\* The spans of hay that equal needle under the normalizations.
tolerantSpans(hay, needle) ==
  {sp \in (0..Len(hay)) \X (0..Len(hay)) :
     /\ sp[1] < sp[2]
     /\ normalized(SubSeq(hay, sp[1] + 1, sp[2])) = normalized(needle)}

\* C19: for a non-empty needle, findQuoteOffsets returns a match whenever
\* some span of hay equals needle under the normalizations, and the span it
\* returns is such a span.
C19_TolerantMatch ==
  (call.fn = "find" /\ call.done /\ call.needle # <<>>) =>
    /\ tolerantSpans(call.hay, call.needle) # {} => call.result.found
    /\ call.result.found =>
         <<call.result.start, call.result.end>> \in tolerantSpans(call.hay, call.needle)

\* C20: every evidence item of the result of verifyClaims has the sourceId
\* of one of the snippets of the call and, when it has a chunkId, the
\* chunkId of one of them.
C20_EvidenceWithinSnippets ==
  (call.fn = "verify" /\ call.pc = "done") =>
    \A k \in DOMAIN call.result :
      \A j \in DOMAIN call.result[k].evidence :
        LET ev == call.result[k].evidence[j]
        IN /\ \E sn \in call.snippets : sn.sourceId = ev.sourceId
           /\ ev.chunkId # NoChunk => \E sn \in call.snippets : sn.chunkId = ev.chunkId

\* C21: the chunk of every claim_evidence row persisted by a run belongs to
\* the source of the row.
C21_EvidenceChunkBelongsToSource ==
  \A e \in db.claimEvidence :
    \E c \in db.chunks : c.id = e.chunkId /\ c.sourceId = e.sourceId

\* C22: every claim_evidence row persisted by a run has
\* 0 <= charStart <= charEnd <= the length of the chunk text, and the text
\* of the chunk from charStart to charEnd equals the quote under the
\* normalizations of the tolerant match.
C22_EvidenceOffsetsResolveQuote ==
  \A e \in db.claimEvidence :
    LET text == chunkTextById(db, e.chunkId)
    IN /\ 0 <= e.charStart
       /\ e.charStart <= e.charEnd
       /\ e.charEnd <= Len(text)
       /\ normalized(SubSeq(text, e.charStart + 1, e.charEnd))
            = normalized(QuoteChars[e.quote])

\* C23: when deepResearch has thrown in a run the caller never cancelled and
\* run() has finished, the stream holds the events emitted up to the
\* failure, then one `error` event with the message of the error, and it is
\* closed.
C23_FailureEndsWithErrorEvent ==
  (route = "finished" /\ run.pc = "thrown" /\ ~sig.req) =>
     /\ Len(delivered) = Len(emitted) + 1
     /\ \A k \in DOMAIN emitted :
          /\ delivered[k].event = RouteForward(emitted[k]).event
          /\ delivered[k].data = RouteForward(emitted[k]).data
     /\ delivered[Len(delivered)].event = "error"
     /\ delivered[Len(delivered)].data = [message |-> run.err.message]
     /\ sse.closed

C25_ResultsSatisfyDomainFilters ==
  (call.fn = "search" /\ call.pc = "returned") =>
    \A k \in DOMAIN call.items :
      /\ call.allowed # {} => \E d \in call.allowed : hostMatches(call.items[k], d)
      /\ \A d \in call.disallowed : ~hostMatches(call.items[k], d)

\* C26: mapLimit never has more tasks in flight than its limit (3 for the
\* searches, at most 4 for the reads); when every task has resolved it has
\* resolved with results[i] = the result of fn(items[i]) for every i; for an
\* empty list it resolves with [] and fn is not called.
C26_MapLimitBoundedAndOrdered ==
  (call.fn = "mapLimit" /\ call.pc = "called") =>
    /\ Cardinality(ml.inFlight) <= ml.limit
    /\ ml.limit <= 4
    /\ (call.rejected = {} /\ ml.i = Len(call.items) /\ ml.inFlight = {}) =>
         /\ ml.settled = "resolved"
         /\ ml.results = [k \in DOMAIN call.items |-> taskResult(call.items[k])]
    /\ ml.settled = "resolved" => ml.i = Len(call.items) /\ ml.inFlight = {}
    /\ call.items = <<>> => ml.settled = "resolved" /\ ml.results = <<>> /\ ml.i = 0

\* A list longer than the limit whose tasks resolved out of order: the
\* second of the first batch before the first.
C26_Witness ==
  /\ call.fn = "mapLimit" /\ call.pc = "called"
  /\ Len(call.items) > ml.limit
  /\ ml.limit >= 2
  /\ ml.results[1] = NoResult
  /\ ml.results[2] # NoResult
  /\ ml.i > ml.limit

\* C27: once the caller has cancelled (the run's signal is aborted), no
\* step of the run adds a source or a chunk row.
C27_NoSourceWritesAfterCancel ==
  [][sig.ac => (db'.sources = db.sources /\ db'.chunks = db.chunks)]_vars

\* C28: a run searches at most 6 subqueries for depth deep, 4 for normal
\* and 3 for quick, and exactly one, the question, when the plan output
\* does not parse.
C28_SubqueriesCappedByDepth ==
  (call.fn = "plan" /\ call.pc \in {"search", "searched"}) =>
    /\ Len(call.searched) <= maxSubqueries(call.req.depth)
    /\ (~call.parsed /\ call.pc = "searched") => call.searched = <<call.req.question>>

\* C29: a subquery search whose first search fails with HTTP 429 or 5xx is
\* issued again by withRetry after a backoff of at least 400 ms, at most
\* twice; one that fails with 401 is not issued again by withRetry.
C29_TransientSearchErrorRetried ==
  (call.fn = "search" /\ call.pc = "returned" /\ ~sig.ac) =>
    /\ call.statuses[1] \in {429, 500} =>
         /\ call.invocations >= 2
         /\ call.sleeps # <<>>
         /\ call.sleeps[1] >= SearchBaseDelay
    /\ call.invocations <= 1 + SearchRetries
    /\ call.statuses[1] = 401 => call.invocations = 1

\* C30: every source has at most one chunk row per position pos.
C30_OneChunkPerPosition ==
  \A s \in db.sources :
    \A c1, c2 \in db.chunks :
      (c1.sourceId = s.id /\ c2.sourceId = s.id /\ c1.pos = c2.pos) => c1 = c2

\* C31: withRetry calls fn at most retries + 1 times; it returns the value
\* of the first call of fn that resolves; once retries + 1 calls have
\* rejected it throws the error of the last one; and once the signal is
\* aborted it does not call fn again and no backoff sleep stays pending.
C31_RetryBoundedAndCancellable ==
  /\ [](call.fn = "withRetry" =>
          /\ call.calls <= call.retries + 1
          /\ call.pc = "returned" =>
               /\ call.outcomes[Len(call.outcomes)] = [ok |-> TRUE, value |-> call.value]
               /\ \A k \in 1..(Len(call.outcomes) - 1) : ~call.outcomes[k].ok
          /\ (Len(call.outcomes) = call.retries + 1
                /\ \A k \in DOMAIN call.outcomes : ~call.outcomes[k].ok) =>
               /\ call.pc = "thrown"
               /\ call.thrown = call.outcomes[Len(call.outcomes)].error
          /\ (call.pc = "thrown" /\ call.thrown # AbortReason) =>
               Len(call.outcomes) = call.retries + 1
          /\ sig.ac => call.pc # "sleep")
  /\ [][(call.fn = "withRetry" /\ sig.ac) => call'.calls = call.calls]_vars

\* With retries 2: the first call rejected, the second rejected after a
\* backoff, and the signal was aborted during the second backoff.
C31_Witness ==
  /\ call.fn = "withRetry"
  /\ sig.ac
  /\ call.pc = "thrown"
  /\ call.thrown = AbortReason
  /\ call.calls = 2
  /\ Len(call.delays) = 2

\* C32: once the raw fetch of a URL has reported a binary content type, the
\* read that reported it is the last read of that URL, by the orchestrator
\* and by the queue worker, and there is no source row of the URL.
C32_BinaryContentIsTerminal ==
  (call.fn = "readUrl" /\ call.binaryAt # 0) =>
    /\ call.reads = call.binaryAt
    /\ sourceIdByUrl(db, "u1") = 0

\* C33: shrinkChunkText leaves a text of at most maxChars characters as it
\* is and returns at most maxChars characters for a longer one, so every
\* chunk placed in the answer prompt has at most MAX_CHARS_PER_CHUNK
\* characters.
C33_ShrunkWithinMaxChars ==
  (call.fn = "budget" /\ call.pc # "ranked") =>
    /\ \A k \in DOMAIN call.shrunk :
         /\ call.chunks[k].len <= call.maxChars => call.shrunk[k] = call.chunks[k]
         /\ call.shrunk[k].len <= call.maxChars
    /\ \A k \in DOMAIN call.out : call.out[k].len <= call.maxChars

\* C34: trimChunksToBudget returns a prefix of its input in the original
\* order, [] for [], at least one chunk for a non-empty input, and more
\* than one chunk only when their estimated tokens sum to at most
\* max(300, budget - reserve).
C34_TrimIsBudgetedPrefix ==
  (call.fn = "budget" /\ call.pc = "trimmed") =>
    /\ Len(call.out) <= Len(call.shrunk)
    /\ call.out = SubSeq(call.shrunk, 1, Len(call.out))
    /\ call.shrunk = <<>> => call.out = <<>>
    /\ call.shrunk # <<>> => call.out # <<>>
    /\ Len(call.out) > 1 =>
         sumTokens(call.out) <= Max(300, call.budget - call.reserve)

\* The trim stopped after two of three chunks.
C34_Witness ==
  /\ call.fn = "budget" /\ call.pc = "trimmed"
  /\ Len(call.shrunk) = 3
  /\ Len(call.out) = 2

\* C35: when the answer stream has completed and the client is still
\* connected, the response stream holds an `answer` event with the full
\* answer text, after every `token` event.
C35_AnswerEventDelivered ==
  (run.pc = "persistMsg" /\ ~sig.req /\ ~sse.closed) =>
    \E k \in DOMAIN delivered :
      /\ delivered[k].event = "answer"
      /\ delivered[k].data.text = run.answerMarkdown
      /\ \A j \in DOMAIN delivered : delivered[j].event = "token" => j < k

\* C36: however a text is cut into the chunks given to push() one after
\* another, the events decoded are those decoded when the whole text is
\* pushed at once, also for CR LF line endings cut between CR and LF.
C36_DecoderIgnoresChunkBoundaries ==
  (call.fn = "decode" /\ call.wire = <<>> /\ ~call.flushed) =>
    dec.events = push(NoDecoder, call.text).events

\* C37: when the stream has ended with a block in the buffer that no blank
\* line terminated, flush() returns the event of that block.
C37_FlushReturnsBufferedBlock ==
  (call.fn = "decode" /\ call.flushed /\ trim(call.residual) # <<>>) =>
    dec.events = Append(call.had, decodeBlock(call.residual))

\* C38: every source of the numbered source list of the answer prompt is an
\* entry of the run's `sources` event with the same index, so a citation
\* [n] identifies the entry with index n.
C38_PromptSourcesMatchSourcesEvent ==
  run.attempt >= 1 =>
    \A k \in DOMAIN formatSourcesList(minimalSourceRefs(run.usedSourceRefs, run.contextChunks)) :
      LET listed == formatSourcesList(
                      minimalSourceRefs(run.usedSourceRefs, run.contextChunks))[k]
      IN \E e \in DOMAIN emitted :
           /\ emitted[e].event = "sources"
           /\ \E j \in DOMAIN emitted[e].data :
                /\ emitted[e].data[j].id = listed.id
                /\ emitted[e].data[j].index = listed.n

\* C39: at most one processQueueItem is active for a row of ingest_queue at
\* any time, also when the row of a running worker is revived.
C39_OneWorkerPerRow ==
  \A i, j \in Procs :
    (/\ i # j
     /\ ingest.procs[i].path = "queue" /\ ingest.procs[j].path = "queue"
     /\ ingest.procs[i].pc # "finished" /\ ingest.procs[j].pc # "finished")
      => ingest.procs[i].row # ingest.procs[j].row

====
